---- MODULE Spec2Model ----
(***************************************************************************)
(* HR employee-records backend (backend/hackathon): the emp_master,        *)
(* emp_ctc_master and emp_compliance_master tables and the request         *)
(* handlers of views.py that read and write them.  Dates are day ordinals  *)
(* (date.toordinal()); a date string sent by a client is the ordinal it    *)
(* parses to, BadDate is a string that                                     *)
(* date.fromisoformat rejects, None is Python's None (or an empty string   *)
(* where the code tests truthiness).  The stored emp_master row is         *)
(* projected on emp_id, start_date, end_date: first_name and last_name are *)
(* validated as in the code but their stored values are not kept.          *)
(*                                                                         *)
(* SpecEmp:  create, update, exit and exit-workflow requests, one at a time*)
(* SpecRole: role-change POSTs, one at a time                              *)
(* SpecConc: two role-change POSTs served concurrently                     *)
(* SpecJoin: joiners/leavers reports over a stored emp_master table        *)
(* SpecDist: CTC/level distribution reports over stored tables             *)
(* SpecTimeline: role-change lists and profiles read while two role-change *)
(*           POSTs are served concurrently                                 *)
(* SpecCreate: two create requests served concurrently                     *)
(* SpecDetail: updates that carry department and position, and detail GETs *)
(* SpecDocs: compliance-document uploads and status updates                *)
(* SpecHead: the requests of SpecEmp and headcount reports                 *)
(* SpecOnboard: onboarding checklist updates and progress reports          *)
(* SpecLoop: the month loop of the joiners/leavers report, one iteration   *)
(*           per step                                                      *)
(*                                                                         *)
(* In SpecJoin and SpecDist the dates are the ordinals of calendar days    *)
(* and req and resp hold the report request and the report.                *)
(***************************************************************************)
EXTENDS Integers, Sequences, FiniteSets, TLC

\* ---------------------------------------------------------------- bounds
\* dates are the days 1..MaxDate
MaxDate == 2
\* create requests succeed while fewer than MaxEmployees rows are stored
MaxEmployees == 1
\* role-change POSTs insert while fewer than MaxRows CTC rows are stored
MaxRows == 2

\* ------------------------------------------------------- program values
None == 0
BadDate == -1
\* a key that is not in the JSON body ('x' in payload is False)
Absent == -2
AbsentName == "<absent>"
\* an annual_ctc that float() rejects
BadAmount == -1
\* main_level of _parse_role_level_parts when the label has no digit (None)
NoneLevel == -1
DateMax == 3652059

Dates == 1..MaxDate
DateInputs == {None, BadDate} \cup Dates

\* emp_id strings of the employee requests; "01" and "1" convert to the same
\* int, "E3" to none
EmpIds == {"1", "01", "E3"}
NoEmployee == ""

\* int(str(emp_id)) for the emp_id strings of the model; None on ValueError
PyInt(s) ==
  CASE s = "1" -> 1
    [] s = "01" -> 1
    [] s = "2" -> 2
    [] OTHER -> None

\* str(n) for the integers PyInt can return
PyStr(n) ==
  CASE n = 1 -> "1"
    [] n = 2 -> "2"
    [] OTHER -> NoEmployee

\* emp_master: the emp_master table, emp_id -> row
\* ctc_master: the emp_ctc_master table, a set of rows
\* compliance_master: the emp_compliance_master table, a set of rows
\* req, resp:  the last request answered and its response
\* pending:    the role-change POSTs that have passed their checks and have
\*             not yet inserted (used by SpecConc only)
VARIABLES emp_master, ctc_master, compliance_master, req, resp, pending

vars == <<emp_master, ctc_master, compliance_master, req, resp, pending>>

\* ------------------------------------------------------------- helpers

\* _parse_iso_date: the date a string parses to, BadDate when it raises
_parse_iso_date(value) ==
  IF value \in 1..DateMax THEN value ELSE BadDate

\* _get_emp_master: the emp_id of the row found, NoEmployee for None
_get_emp_master(rows, emp_id) ==
  IF emp_id \in DOMAIN rows THEN emp_id
  ELSE IF PyInt(emp_id) # None /\ PyStr(PyInt(emp_id)) \in DOMAIN rows
       THEN PyStr(PyInt(emp_id))
       ELSE NoEmployee

_to_int_emp_id(emp_id) == PyInt(emp_id)

\* _mirror_status with the two labels swapped
_mirror_status_swapped(end_date) ==
  IF end_date = None THEN "exited" ELSE "active"

_mirror_status(end_date) ==
  IF end_date = None THEN "active" ELSE "exited"

NoEmployeeDict ==
  [emp_id |-> NoEmployee, start_date |-> None, end_date |-> None, status |-> "",
   department |-> "", position |-> ""]

_mirror_to_employee_dict(row) ==
  [emp_id |-> row.emp_id, start_date |-> row.start_date,
   end_date |-> row.end_date, status |-> _mirror_status(row.end_date),
   department |-> "General", position |-> "Employee"]

NoRecord ==
  [id |-> None, role_level |-> <<>>, annual_ctc |-> None,
   effective_from |-> None, effective_to |-> None]

NoBody == [role_title |-> "", role_level |-> <<>>, annual_ctc |-> None]

Response(status, error, employee, record) ==
  [status |-> status, error |-> error, employee |-> employee, record |-> record]

Request(op, emp_id, d1, d2) ==
  [op |-> op, emp_id |-> emp_id, d1 |-> d1, d2 |-> d2, body |-> NoBody]

\* the rows of a table after employee.save() / objects.create(): the row
\* with this primary key is written, every other row is left alone
SaveRow(rows, row) ==
  [k \in DOMAIN rows \cup {row.emp_id} |-> IF k = row.emp_id THEN row ELSE rows[k]]

\* ------------------------------------------------------------ employees

\* ApiEmployeeCreateView.post: the response and the emp_master rows after it
ApiEmployeeCreateViewPostResult(rows, emp_id, first_name, last_name, start_date) ==
  IF emp_id = "" \/ first_name = "" \/ last_name = "" \/ start_date = None
  THEN [resp |-> Response(400, "Missing required fields.", NoEmployeeDict, NoRecord),
        rows |-> rows]
  ELSE IF _parse_iso_date(start_date) = BadDate
  THEN [resp |-> Response(400, "Invalid start_date format. Use YYYY-MM-DD.", NoEmployeeDict, NoRecord),
        rows |-> rows]
  ELSE IF emp_id \in DOMAIN rows
  THEN [resp |-> Response(400, "Employee ID already exists.", NoEmployeeDict, NoRecord),
        rows |-> rows]
  ELSE LET employee == [emp_id |-> emp_id,
                        start_date |-> _parse_iso_date(start_date),
                        end_date |-> None]
       IN [resp |-> Response(201, "", _mirror_to_employee_dict(employee), NoRecord),
           rows |-> SaveRow(rows, employee)]

ApiEmployeeCreateViewPost(emp_id, first_name, last_name, start_date) ==
  \E r \in {ApiEmployeeCreateViewPostResult(emp_master, emp_id, first_name, last_name, start_date)} :
     /\ r.resp.status = 201 => Cardinality(DOMAIN emp_master) < MaxEmployees
     /\ emp_master' = r.rows
     /\ resp' = r.resp
     /\ req' = Request("create", emp_id, start_date, None)
     /\ UNCHANGED <<ctc_master, compliance_master, pending>>

\* a put that writes the row back with the end_date of a new employee
PutRow_clears_end(employee, start_date) ==
  [emp_id |-> employee.emp_id,
   start_date |-> IF start_date # Absent THEN _parse_iso_date(start_date)
                  ELSE employee.start_date,
   end_date |-> None]

\* ApiEmployeeDetailView.put: the row written by employee.save()
PutRow(employee, start_date) ==
  [employee EXCEPT !.start_date =
     IF start_date # Absent THEN _parse_iso_date(start_date) ELSE @]

\* ApiEmployeeDetailView.put: a field of the JSON body is Absent/AbsentName
\* when its key is not in the payload
ApiEmployeeDetailViewPutResult(rows, emp_id, first_name, last_name, start_date) ==
  IF emp_id \notin DOMAIN rows
  THEN [resp |-> Response(404, "Employee not found.", NoEmployeeDict, NoRecord),
        rows |-> rows]
  ELSE IF first_name # AbsentName /\ first_name = ""
  THEN [resp |-> Response(400, "First name cannot be empty.", NoEmployeeDict, NoRecord),
        rows |-> rows]
  ELSE IF last_name # AbsentName /\ last_name = ""
  THEN [resp |-> Response(400, "Last name cannot be empty.", NoEmployeeDict, NoRecord),
        rows |-> rows]
  ELSE IF start_date # Absent /\ _parse_iso_date(start_date) = BadDate
  THEN [resp |-> Response(400, "Invalid start_date format. Use YYYY-MM-DD.", NoEmployeeDict, NoRecord),
        rows |-> rows]
  ELSE LET employee == PutRow(rows[emp_id], start_date)
       IN [resp |-> Response(200, "", _mirror_to_employee_dict(employee), NoRecord),
           rows |-> SaveRow(rows, employee)]

ApiEmployeeDetailViewPut(emp_id, first_name, last_name, start_date) ==
  \E r \in {ApiEmployeeDetailViewPutResult(emp_master, emp_id, first_name, last_name, start_date)} :
     /\ emp_master' = r.rows
     /\ resp' = r.resp
     /\ req' = Request("put", emp_id, start_date, None)
     /\ UNCHANGED <<ctc_master, compliance_master, pending>>

\* the same test with the operands of < swapped
EndBeforeStart_swapped(start_date, parsed_end) ==
  start_date # None /\ start_date < parsed_end

\* the test `employee.start_date and parsed_end < employee.start_date`
EndBeforeStart(start_date, parsed_end) ==
  start_date # None /\ parsed_end < start_date

\* employee.end_date = parsed_end
ExitRow(employee, parsed_end) ==
  [employee EXCEPT !.end_date = parsed_end]

\* ApiEmployeeExitView.post
ApiEmployeeExitViewPostResult(rows, emp_id, end_date) ==
  IF end_date = None
  THEN [resp |-> Response(400, "End date is required.", NoEmployeeDict, NoRecord),
        rows |-> rows]
  ELSE IF _get_emp_master(rows, emp_id) = NoEmployee
  THEN [resp |-> Response(404, "Employee not found.", NoEmployeeDict, NoRecord),
        rows |-> rows]
  ELSE IF _parse_iso_date(end_date) = BadDate
  THEN [resp |-> Response(400, "Invalid end_date format. Use YYYY-MM-DD.", NoEmployeeDict, NoRecord),
        rows |-> rows]
  ELSE LET employee == rows[_get_emp_master(rows, emp_id)]
           parsed_end == _parse_iso_date(end_date)
       IN IF EndBeforeStart(employee.start_date, parsed_end)
          THEN [resp |-> Response(400, "End date cannot be earlier than start date.", NoEmployeeDict, NoRecord),
                rows |-> rows]
          ELSE [resp |-> Response(200, "", _mirror_to_employee_dict(ExitRow(employee, parsed_end)), NoRecord),
                rows |-> SaveRow(rows, ExitRow(employee, parsed_end))]

ApiEmployeeExitViewPost(emp_id, end_date) ==
  \E r \in {ApiEmployeeExitViewPostResult(emp_master, emp_id, end_date)} :
     /\ emp_master' = r.rows
     /\ resp' = r.resp
     /\ req' = Request("exit", emp_id, end_date, None)
     /\ UNCHANGED <<ctc_master, compliance_master, pending>>

\* ApiEmployeeExitWorkflowView.post
ApiEmployeeExitWorkflowViewPostResult(rows, emp_id, last_working_day) ==
  IF _get_emp_master(rows, emp_id) = NoEmployee
  THEN [resp |-> Response(404, "Employee not found.", NoEmployeeDict, NoRecord),
        rows |-> rows]
  ELSE IF last_working_day = None
  THEN [resp |-> Response(400, "last_working_day is required.", NoEmployeeDict, NoRecord),
        rows |-> rows]
  ELSE IF _parse_iso_date(last_working_day) = BadDate
  THEN [resp |-> Response(400, "Invalid last_working_day format. Use YYYY-MM-DD.", NoEmployeeDict, NoRecord),
        rows |-> rows]
  ELSE LET employee == rows[_get_emp_master(rows, emp_id)]
           parsed_lwd == _parse_iso_date(last_working_day)
       IN IF EndBeforeStart(employee.start_date, parsed_lwd)
          THEN [resp |-> Response(400, "last_working_day cannot be before start_date.", NoEmployeeDict, NoRecord),
                rows |-> rows]
          ELSE [resp |-> Response(200, "", _mirror_to_employee_dict(ExitRow(employee, parsed_lwd)), NoRecord),
                rows |-> SaveRow(rows, ExitRow(employee, parsed_lwd))]

ApiEmployeeExitWorkflowViewPost(emp_id, last_working_day) ==
  \E r \in {ApiEmployeeExitWorkflowViewPostResult(emp_master, emp_id, last_working_day)} :
     /\ emp_master' = r.rows
     /\ resp' = r.resp
     /\ req' = Request("exit_workflow", emp_id, last_working_day, None)
     /\ UNCHANGED <<ctc_master, compliance_master, pending>>

\* --------------------------------------------------------- role levels
\* A role_level label is a sequence of one-character strings.

DigitChars == <<"0", "1", "2", "3", "4", "5", "6", "7", "8", "9">>
IsDigit(ch) == \E i \in 1..10 : DigitChars[i] = ch
DigitVal(ch) == (CHOOSE i \in 1..10 : DigitChars[i] = ch) - 1
IsAlpha(ch) == ch \in {"A", "B", "L", "a", "b", "l"}

\* str.upper() on the characters of the model
UpperCh(ch) ==
  CASE ch = "a" -> "A"
    [] ch = "b" -> "B"
    [] ch = "l" -> "L"
    [] OTHER -> ch

RECURSIVE StripLeft(_)
StripLeft(str) ==
  IF str # <<>> /\ Head(str) = " " THEN StripLeft(Tail(str)) ELSE str

RECURSIVE StripRight(_)
StripRight(str) ==
  IF str # <<>> /\ str[Len(str)] = " "
  THEN StripRight(SubSeq(str, 1, Len(str) - 1)) ELSE str

\* str.strip()
Strip(str) == StripRight(StripLeft(str))

\* int(digits) for a non-empty sequence of digit characters
RECURSIVE IntOfDigits(_)
IntOfDigits(digits) ==
  IF digits = <<>> THEN 0
  ELSE IntOfDigits(SubSeq(digits, 1, Len(digits) - 1)) * 10
         + DigitVal(digits[Len(digits)])

\* str(n) for n >= 0
RECURSIVE DigitsOfInt(_)
DigitsOfInt(n) ==
  IF n < 10 THEN <<DigitChars[n + 1]>>
  ELSE DigitsOfInt(n \div 10) \o <<DigitChars[(n % 10) + 1]>>

\* _parse_role_level_parts: main is NoneLevel for None, sub "" or one letter
_parse_role_level_parts(role_level) ==
  LET raw == [i \in 1..Len(Strip(role_level)) |-> UpperCh(Strip(role_level)[i])]
      digits == SelectSeq(raw, IsDigit)
      letters == SelectSeq(raw, IsAlpha)
  IN IF raw = <<>> THEN [main |-> NoneLevel, sub |-> ""]
     ELSE [main |-> IF digits # <<>> THEN IntOfDigits(digits) ELSE NoneLevel,
           sub |-> IF letters # <<>> THEN letters[1] ELSE ""]

\* _format_role_level; the label 'Unknown' is the one-element sequence
_format_role_level(main_level, sub_level) ==
  IF main_level = NoneLevel /\ sub_level = "" THEN <<"Unknown">>
  ELSE IF main_level = NoneLevel THEN <<sub_level>>
  ELSE <<"L">> \o DigitsOfInt(main_level)
         \o (IF sub_level = "" THEN <<>> ELSE <<sub_level>>)

\* float(row.ctc_amt): amounts are kept in hundredths
_ctc_row_to_timeline(row) ==
  [id |-> row.emp_ctc_id,
   role_level |-> _format_role_level(row.main_level, row.sub_level),
   annual_ctc |-> row.ctc_amt,
   effective_from |-> row.start_of_ctc,
   effective_to |-> row.end_of_ctc]

\* --------------------------------------------------------- role changes

\* the end date used as it is, without `or date.max`
OrDateMax_forgotten(d) == d

\* `x or date.max`
OrDateMax(d) == IF d = None THEN DateMax ELSE d

\* the overlap test with strict comparisons
RowOverlaps_strict(old_start, old_end, new_start, new_end) ==
  old_start < new_end /\ new_start < old_end

\* `old_start <= new_end and new_start <= old_end`
RowOverlaps(old_start, old_end, new_start, new_end) ==
  old_start <= new_end /\ new_start <= old_end

\* CTCModel.objects.filter(emp_id=emp_id_int)
existing_rows(rows, emp_id_int) ==
  {old \in rows : old.emp_id = emp_id_int}

\* the loop over existing_rows: TRUE when some row makes it return 400
OverlapFound(rows, emp_id_int, parsed_from, parsed_to) ==
  \E old \in existing_rows(rows, emp_id_int) :
    RowOverlaps(old.start_of_ctc, OrDateMax(old.end_of_ctc),
                parsed_from, OrDateMax(parsed_to))

\* a range test that never fires
InvalidRange_never(parsed_from, parsed_to) == FALSE

\* `parsed_to and parsed_to < parsed_from`
InvalidRange(parsed_from, parsed_to) ==
  parsed_to # None /\ parsed_to < parsed_from

\* int(float(annual_ctc)), in hundredths
CtcValue(annual_ctc) == (annual_ctc \div 100) * 100

\* the row CTCModel.objects.create() inserts; emp_ctc_id is the AutoField
NewCtcRow(rows, emp_id_int, body, parsed_from, parsed_to) ==
  LET parts == _parse_role_level_parts(body.role_level)
  IN [emp_ctc_id |-> Cardinality(rows) + 1,
      emp_id |-> emp_id_int,
      main_level |-> IF parts.main # NoneLevel THEN parts.main ELSE 0,
      sub_level |-> IF parts.sub # "" THEN parts.sub ELSE "0",
      start_of_ctc |-> parsed_from,
      end_of_ctc |-> parsed_to,
      ctc_amt |-> CtcValue(body.annual_ctc)]

\* an insert that replaces the rows the employee already has
RoleChangeCreate_replaces_history(rows, emp_id_int, body, parsed_from, parsed_to) ==
  IF body.annual_ctc = BadAmount
  THEN [resp |-> Response(500, "Failed to save role change", NoEmployeeDict, NoRecord),
        rows |-> rows]
  ELSE LET row == NewCtcRow(rows, emp_id_int, body, parsed_from, parsed_to)
       IN [resp |-> Response(201, "", NoEmployeeDict, _ctc_row_to_timeline(row)),
           rows |-> {old \in rows : old.emp_id # emp_id_int} \cup {row}]

\* the insert half of the try block (lines 922-937)
RoleChangeCreate(rows, emp_id_int, body, parsed_from, parsed_to) ==
  IF body.annual_ctc = BadAmount
  THEN [resp |-> Response(500, "Failed to save role change", NoEmployeeDict, NoRecord),
        rows |-> rows]
  ELSE LET row == NewCtcRow(rows, emp_id_int, body, parsed_from, parsed_to)
       IN [resp |-> Response(201, "", NoEmployeeDict, _ctc_row_to_timeline(row)),
           rows |-> rows \cup {row}]

\* a try block that inserts first and looks for overlaps afterwards
RoleChangeTry_create_first(rows, emp_id_int, body, parsed_from, parsed_to) ==
  LET created == RoleChangeCreate(rows, emp_id_int, body, parsed_from, parsed_to)
  IN IF OverlapFound(rows, emp_id_int, parsed_from, parsed_to)
     THEN [resp |-> Response(400, "Role change dates overlap with an existing record.",
                             NoEmployeeDict, NoRecord),
           rows |-> created.rows]
     ELSE created

\* the try block of ApiEmployeeRoleChangeView.post (lines 911-935)
RoleChangeTry(rows, emp_id_int, body, parsed_from, parsed_to) ==
  IF OverlapFound(rows, emp_id_int, parsed_from, parsed_to)
  THEN [resp |-> Response(400, "Role change dates overlap with an existing record.",
                          NoEmployeeDict, NoRecord),
        rows |-> rows]
  ELSE RoleChangeCreate(rows, emp_id_int, body, parsed_from, parsed_to)

\* `parse(effective_to) if effective_to else None`
ParsedTo(effective_to) ==
  IF effective_to = None THEN None ELSE _parse_iso_date(effective_to)

\* the checks with the dates parsed before the emp_id is converted
RoleChangeValidate_dates_first(employees, emp_id, body, effective_from, effective_to) ==
  IF _get_emp_master(employees, emp_id) = NoEmployee
  THEN Response(404, "Employee not found.", NoEmployeeDict, NoRecord)
  ELSE IF body.role_title = "" \/ Strip(body.role_level) = <<>>
          \/ body.annual_ctc = None \/ effective_from = None
  THEN Response(400, "Missing required fields.", NoEmployeeDict, NoRecord)
  ELSE IF _parse_iso_date(effective_from) = BadDate
  THEN Response(400, "Invalid effective_from format. Use YYYY-MM-DD.", NoEmployeeDict, NoRecord)
  ELSE IF effective_to # None /\ _parse_iso_date(effective_to) = BadDate
  THEN Response(400, "Invalid effective_to format. Use YYYY-MM-DD.", NoEmployeeDict, NoRecord)
  ELSE IF InvalidRange(_parse_iso_date(effective_from), ParsedTo(effective_to))
  THEN Response(400, "effective_to cannot be before effective_from.", NoEmployeeDict, NoRecord)
  ELSE IF _to_int_emp_id(_get_emp_master(employees, emp_id)) = None
  THEN Response(400, "Employee ID must be numeric for CTC records.", NoEmployeeDict, NoRecord)
  ELSE Response(0, "", NoEmployeeDict, NoRecord)

\* ApiEmployeeRoleChangeView.post up to the try block (lines 884-909): the
\* early response, or status 0 when the request reaches the try block
RoleChangeValidate(employees, emp_id, body, effective_from, effective_to) ==
  IF _get_emp_master(employees, emp_id) = NoEmployee
  THEN Response(404, "Employee not found.", NoEmployeeDict, NoRecord)
  ELSE IF _to_int_emp_id(_get_emp_master(employees, emp_id)) = None
  THEN Response(400, "Employee ID must be numeric for CTC records.", NoEmployeeDict, NoRecord)
  ELSE IF body.role_title = "" \/ Strip(body.role_level) = <<>>
          \/ body.annual_ctc = None \/ effective_from = None
  THEN Response(400, "Missing required fields.", NoEmployeeDict, NoRecord)
  ELSE IF _parse_iso_date(effective_from) = BadDate
  THEN Response(400, "Invalid effective_from format. Use YYYY-MM-DD.", NoEmployeeDict, NoRecord)
  ELSE IF effective_to # None /\ _parse_iso_date(effective_to) = BadDate
  THEN Response(400, "Invalid effective_to format. Use YYYY-MM-DD.", NoEmployeeDict, NoRecord)
  ELSE IF InvalidRange(_parse_iso_date(effective_from), ParsedTo(effective_to))
  THEN Response(400, "effective_to cannot be before effective_from.", NoEmployeeDict, NoRecord)
  ELSE Response(0, "", NoEmployeeDict, NoRecord)

\* ApiEmployeeRoleChangeView.post: the response and the CTC rows after it
ApiEmployeeRoleChangeViewPostResult(employees, rows, emp_id, body, effective_from, effective_to) ==
  LET early == RoleChangeValidate(employees, emp_id, body, effective_from, effective_to)
  IN IF early.status # 0
     THEN [resp |-> early, rows |-> rows]
     ELSE RoleChangeTry(rows, _to_int_emp_id(_get_emp_master(employees, emp_id)), body,
                        _parse_iso_date(effective_from), ParsedTo(effective_to))

RoleRequest(emp_id, body, effective_from, effective_to) ==
  [op |-> "role_post", emp_id |-> emp_id, d1 |-> effective_from,
   d2 |-> effective_to, body |-> body]

ApiEmployeeRoleChangeViewPost(emp_id, body, effective_from, effective_to) ==
  \E r \in {ApiEmployeeRoleChangeViewPostResult(emp_master, ctc_master, emp_id, body,
                                               effective_from, effective_to)} :
     /\ r.resp.status = 201 => Cardinality(ctc_master) < MaxRows
     /\ ctc_master' = r.rows
     /\ resp' = r.resp
     /\ req' = RoleRequest(emp_id, body, effective_from, effective_to)
     /\ UNCHANGED <<emp_master, compliance_master, pending>>

Procs == {1, 2}
NoPending == [pc |-> "idle"]

Init ==
  /\ emp_master = <<>>
  /\ ctc_master = {}
  /\ compliance_master = {}
  /\ pending = [p \in Procs |-> NoPending]
  /\ req = Request("", NoEmployee, None, None)
  /\ resp = Response(0, "", NoEmployeeDict, NoRecord)

\* the (first_name, last_name) pairs of the create and update requests
CreateNames == {<<"A", "B">>, <<"", "B">>, <<"A", "">>}
PutNames == {<<AbsentName, AbsentName>>, <<"", AbsentName>>, <<"A", "">>, <<"A", "B">>}

NextEmp ==
  \/ \E emp_id \in EmpIds \cup {""}, names \in CreateNames, start_date \in DateInputs :
          ApiEmployeeCreateViewPost(emp_id, names[1], names[2], start_date)
  \/ \E emp_id \in EmpIds, names \in PutNames, start_date \in DateInputs \cup {Absent} :
          ApiEmployeeDetailViewPut(emp_id, names[1], names[2], start_date)
  \/ \E emp_id \in EmpIds, end_date \in DateInputs :
          ApiEmployeeExitViewPost(emp_id, end_date)
  \/ \E emp_id \in EmpIds, last_working_day \in DateInputs :
          ApiEmployeeExitWorkflowViewPost(emp_id, last_working_day)

SpecEmp == Init /\ [][NextEmp]_vars

\* the JSON bodies of role-change requests (the dates are separate inputs)
FullBody == [role_title |-> "Engineer", role_level |-> <<"L", "2">>, annual_ctc |-> 90000050]
Bodies ==
  {FullBody,
   [FullBody EXCEPT !.role_level = <<" ">>],
   [FullBody EXCEPT !.annual_ctc = BadAmount]}

\* emp_master as left by three create requests and one exit request
InitRole ==
  /\ emp_master = [e \in {"1", "2", "E3"} |->
                     [emp_id |-> e, start_date |-> 1,
                      end_date |-> IF e = "2" THEN 1 ELSE None]]
  /\ ctc_master = {}
  /\ compliance_master = {}
  /\ pending = [p \in Procs |-> NoPending]
  /\ req = Request("", NoEmployee, None, None)
  /\ resp = Response(0, "", NoEmployeeDict, NoRecord)

RolePost(emp_id, body, effective_from, effective_to) ==
  [emp_id |-> emp_id, body |-> body,
   effective_from |-> effective_from, effective_to |-> effective_to]

\* the role-change requests of the model: every complete request with parsable
\* dates for the numeric employees, and requests that leave the handler early
RolePosts ==
  {RolePost(e, FullBody, f, t) : e \in {"1", "01", "2"}, f \in Dates, t \in Dates \cup {None}}
  \cup {RolePost("1", b, f, None) : b \in Bodies, f \in Dates}
  \cup {RolePost("1", FullBody, f, None) : f \in {None, BadDate}}
  \cup {RolePost("1", FullBody, f, BadDate) : f \in Dates}
  \cup {RolePost(e, FullBody, f, None) : e \in {"E3", "E9"}, f \in Dates}

NextRole ==
  \E post \in RolePosts :
    ApiEmployeeRoleChangeViewPost(post.emp_id, post.body, post.effective_from,
                                  post.effective_to)

SpecRole == InitRole /\ [][NextRole]_vars

\* ------------------------------------------- concurrent role-change POSTs
\* Two requests served at the same time.  The handler runs no transaction
\* and takes no lock: the SELECT of the overlap loop (line 916) and the
\* INSERT of objects.create (line 924) are separate statements, so another
\* request's statements can run between them.

\* lines 884-920 of a request served by worker p
RoleChangeBegin(p, emp_id, body, effective_from, effective_to) ==
  \E early \in {RoleChangeValidate(emp_master, emp_id, body, effective_from, effective_to)} :
     /\ pending[p].pc = "idle"
     /\ IF early.status # 0
        THEN /\ resp' = early
             /\ req' = RoleRequest(emp_id, body, effective_from, effective_to)
             /\ UNCHANGED pending
        ELSE IF OverlapFound(ctc_master, _to_int_emp_id(_get_emp_master(emp_master, emp_id)),
                             _parse_iso_date(effective_from), ParsedTo(effective_to))
        THEN /\ resp' = Response(400, "Role change dates overlap with an existing record.",
                                 NoEmployeeDict, NoRecord)
             /\ req' = RoleRequest(emp_id, body, effective_from, effective_to)
             /\ UNCHANGED pending
        ELSE /\ Cardinality(ctc_master)
                  + Cardinality({q \in Procs : pending[q].pc = "create"}) < MaxRows
             /\ pending' = [pending EXCEPT ![p] =
                  [pc |-> "create", emp_id |-> emp_id, body |-> body,
                   effective_from |-> effective_from, effective_to |-> effective_to]]
             /\ UNCHANGED <<req, resp>>
     /\ UNCHANGED <<emp_master, ctc_master, compliance_master>>

\* lines 922-937 of the request worker p is serving
RoleChangeFinish(p) ==
  /\ pending[p].pc = "create"
  /\ \E r \in {RoleChangeCreate(ctc_master,
                                _to_int_emp_id(_get_emp_master(emp_master, pending[p].emp_id)),
                                pending[p].body,
                                _parse_iso_date(pending[p].effective_from),
                                ParsedTo(pending[p].effective_to))} :
        /\ ctc_master' = r.rows
        /\ resp' = r.resp
  /\ req' = RoleRequest(pending[p].emp_id, pending[p].body,
                        pending[p].effective_from, pending[p].effective_to)
  /\ pending' = [pending EXCEPT ![p] = NoPending]
  /\ UNCHANGED <<emp_master, compliance_master>>

NextConc ==
  \/ \E p \in Procs, emp_id \in {"1", "01", "2"}, effective_from \in Dates,
        effective_to \in Dates \cup {None} :
          RoleChangeBegin(p, emp_id, FullBody, effective_from, effective_to)
  \/ \E p \in Procs : RoleChangeFinish(p)

SpecConc == InitRole /\ [][NextConc]_vars

\* ------------------------------------------------------------- calendar
\* datetime.date on day ordinals: date.year, date.month and date(y, m, d)

IsLeap(year) == year % 4 = 0 /\ (year % 100 # 0 \/ year % 400 = 0)

DaysInMonth(year, month) ==
  IF month = 2 THEN (IF IsLeap(year) THEN 29 ELSE 28)
  ELSE IF month \in {4, 6, 9, 11} THEN 30 ELSE 31

\* the days of a common year before the first day of each month
DaysBeforeMonthTable == <<0, 31, 59, 90, 120, 151, 181, 212, 243, 273, 304, 334>>

DaysBeforeMonth(year, month) ==
  DaysBeforeMonthTable[month] + (IF month > 2 /\ IsLeap(year) THEN 1 ELSE 0)

DaysBeforeYear(year) ==
  (year - 1) * 365 + (year - 1) \div 4 - (year - 1) \div 100 + (year - 1) \div 400

\* date(year, month, day).toordinal()
Date(year, month, day) ==
  DaysBeforeYear(year) + DaysBeforeMonth(year, month) + day

\* d.year
YearOfOrdinal(d) ==
  LET n == d - 1
      n400 == n \div 146097
      r400 == n % 146097
      n100 == r400 \div 36524
      r100 == r400 % 36524
      n4 == r100 \div 1461
      r4 == r100 % 1461
      n1 == r4 \div 365
      year == n400 * 400 + n100 * 100 + n4 * 4 + n1 + 1
  IN IF n1 = 4 \/ n100 = 4 THEN year - 1 ELSE year

\* d.month: the estimate (n + 50) >> 5 of the month, one too large when that
\* month starts after day n of the year
MonthOfYearDay(year, n) ==
  IF DaysBeforeMonth(year, (n + 50) \div 32) > n
  THEN (n + 50) \div 32 - 1
  ELSE (n + 50) \div 32

MonthOfOrdinal(d) ==
  MonthOfYearDay(YearOfOrdinal(d), d - DaysBeforeYear(YearOfOrdinal(d)) - 1)

\* year and month of the days from 2023-12-01 to 2025-12-31, computed once
CalendarDays == Date(2023, 12, 1)..Date(2025, 12, 31)
Calendar ==
  [d \in CalendarDays |-> [year |-> YearOfOrdinal(d), month |-> MonthOfOrdinal(d)]]

Year(d) == IF d \in CalendarDays THEN Calendar[d].year ELSE YearOfOrdinal(d)
Month(d) == IF d \in CalendarDays THEN Calendar[d].month ELSE MonthOfOrdinal(d)

\* ------------------------------------------------ joiners/leavers report

\* date(2024, 1, 1), the start used when the request has no 'start'
DefaultStart == Date(2024, 1, 1)

\* strftime('%Y-%m')
MonthKey(d) == [year |-> Year(d), month |-> Month(d)]

ReportResponse(status, error, start, end, monthly) ==
  [status |-> status, error |-> error, start |-> start, end |-> end,
   monthly |-> monthly]

\* the request and the value date.today() has while it is served
ReportRequest(start_raw, end_raw, today) ==
  [op |-> "joiners_leavers", start |-> start_raw, end |-> end_raw, today |-> today]

\* the rows a loop over emp_master counts, as a dict from month key to count
CountByMonth(rows, counted, dated) ==
  [key \in {MonthKey(dated[e]) : e \in counted} |->
     Cardinality({e \in counted : MonthKey(dated[e]) = key})]

\* dict.get(key, 0)
DictGet(dict, key) == IF key \in DOMAIN dict THEN dict[key] ELSE 0

\* the joiners loop filtered on end_date instead of start_date
joiners_by_end_date(rows, start_date, end_date) ==
  CountByMonth(rows,
               {e \in DOMAIN rows : /\ rows[e].end_date # None
                                    /\ rows[e].end_date >= start_date
                                    /\ rows[e].end_date <= end_date},
               [e \in DOMAIN rows |-> rows[e].end_date])

\* the dict joiners after the loop of lines 1237-1239
joiners(rows, start_date, end_date) ==
  CountByMonth(rows,
               {e \in DOMAIN rows : /\ rows[e].start_date >= start_date
                                    /\ rows[e].start_date <= end_date},
               [e \in DOMAIN rows |-> rows[e].start_date])

\* the leavers loop without the end_date__gte / end_date__lte filters
leavers_unfiltered(rows, start_date, end_date) ==
  CountByMonth(rows,
               {e \in DOMAIN rows : rows[e].end_date # None},
               [e \in DOMAIN rows |-> rows[e].end_date])

\* the dict leavers after the loop of lines 1241-1243
leavers(rows, start_date, end_date) ==
  CountByMonth(rows,
               {e \in DOMAIN rows : /\ rows[e].end_date # None
                                    /\ rows[e].end_date >= start_date
                                    /\ rows[e].end_date <= end_date},
               [e \in DOMAIN rows |-> rows[e].end_date])

\* a cursor that goes from December to February of the next year
NextCursor_skips_january(cursor) ==
  IF Month(cursor) = 12 THEN Date(Year(cursor) + 1, 2, 1)
  ELSE Date(Year(cursor), Month(cursor) + 1, 1)

\* a cursor that stays on the first of December
NextCursor_stays_in_december(cursor) ==
  IF Month(cursor) = 12 THEN cursor
  ELSE Date(Year(cursor), Month(cursor) + 1, 1)

\* lines 1251-1254: the first day of the month after cursor's
NextCursor(cursor) ==
  IF Month(cursor) = 12 THEN Date(Year(cursor) + 1, 1, 1)
  ELSE Date(Year(cursor), Month(cursor) + 1, 1)

\* the end of the loop one month early
CursorInRange_exclusive(cursor, end_month) == cursor < end_month

\* the loop condition `cursor <= end_month`
CursorInRange(cursor, end_month) == cursor <= end_month

\* the while loop of lines 1248-1254: the rows appended from cursor on
RECURSIVE MonthlyRows(_, _, _, _)
MonthlyRows(joiners_dict, leavers_dict, cursor, end_month) ==
  IF CursorInRange(cursor, end_month)
  THEN <<[month |-> MonthKey(cursor),
          joiners |-> DictGet(joiners_dict, MonthKey(cursor)),
          leavers |-> DictGet(leavers_dict, MonthKey(cursor))]>>
       \o MonthlyRows(joiners_dict, leavers_dict, NextCursor(cursor), end_month)
  ELSE <<>>

\* the range test with <= for <
EndBeforeRangeStart_or_equal(start_date, end_date) == end_date <= start_date

\* `end_date < start_date`
EndBeforeRangeStart(start_date, end_date) == end_date < start_date

\* ApiJoinersLeaversReportView.get; start_raw and end_raw are None when the
\* query parameter is missing or empty
ApiJoinersLeaversReportViewGetResult(rows, start_raw, end_raw, today) ==
  LET start_date == IF start_raw # None THEN _parse_iso_date(start_raw) ELSE DefaultStart
      end_date == IF end_raw # None THEN _parse_iso_date(end_raw) ELSE today
  IN IF start_date = BadDate
     THEN ReportResponse(400, "Invalid start format. Use YYYY-MM-DD.", None, None, <<>>)
     ELSE IF end_date = BadDate
     THEN ReportResponse(400, "Invalid end format. Use YYYY-MM-DD.", None, None, <<>>)
     ELSE IF EndBeforeRangeStart(start_date, end_date)
     THEN ReportResponse(400, "end cannot be before start.", None, None, <<>>)
     ELSE ReportResponse(200, "", start_date, end_date,
                         MonthlyRows(joiners(rows, start_date, end_date),
                                     leavers(rows, start_date, end_date),
                                     Date(Year(start_date), Month(start_date), 1),
                                     Date(Year(end_date), Month(end_date), 1)))

ApiJoinersLeaversReportViewGet(start_raw, end_raw, today) ==
  /\ resp' = ApiJoinersLeaversReportViewGetResult(emp_master, start_raw, end_raw, today)
  /\ req' = ReportRequest(start_raw, end_raw, today)
  /\ UNCHANGED <<emp_master, ctc_master, compliance_master, pending>>

\* the employees of the report's tables
MaxJoinEmployees == 2
JoinIdSeq == <<"1", "2", "E3", "4">>
JoinIds == {JoinIdSeq[i] : i \in 1..MaxJoinEmployees}

\* the days on which employees of the report's tables start and end
EventDays == {Date(2024, 12, 31), Date(2025, 1, 15), Date(2025, 3, 20)}

\* the (start, end) parameters of the report requests: ranges inside one
\* month, over several months and over the end of a year, ranges whose end is
\* before their start, and missing and unparsable parameters
RangeStarts == {Date(2024, 12, 1), Date(2025, 1, 1), Date(2025, 1, 20)}
RangeEnds == {Date(2025, 1, 20), Date(2025, 3, 10), Date(2025, 3, 31)}
ReportRanges ==
  (RangeStarts \X RangeEnds)
  \cup {<<Date(2025, 3, 31), Date(2025, 1, 1)>>, <<Date(2025, 1, 20), Date(2025, 1, 1)>>,
        <<None, Date(2025, 3, 31)>>, <<Date(2025, 1, 1), None>>,
        <<Date(2025, 3, 31), None>>, <<None, None>>,
        <<BadDate, Date(2025, 3, 31)>>, <<Date(2025, 1, 1), BadDate>>,
        <<BadDate, BadDate>>}

\* the values of date.today() while a report request is served
Todays == {Date(2025, 2, 10)}

\* start_date and end_date as a create request and an exit request leave them
LifeSpans ==
  {[start_date |-> s, end_date |-> e] :
     s \in EventDays, e \in {None} \cup EventDays}

JoinTables ==
  {[e \in JoinIds |-> [emp_id |-> e, start_date |-> f[e].start_date,
                       end_date |-> f[e].end_date]] :
     f \in [JoinIds -> {l \in LifeSpans : l.end_date = None \/ l.end_date >= l.start_date}]}

InitJoin ==
  /\ emp_master \in JoinTables
  /\ ctc_master = {}
  /\ compliance_master = {}
  /\ pending = [p \in Procs |-> NoPending]
  /\ req = [ReportRequest(None, None, None) EXCEPT !.op = ""]
  /\ resp = ReportResponse(0, "", None, None, <<>>)

NextJoin ==
  \E range \in ReportRanges, today \in Todays :
    ApiJoinersLeaversReportViewGet(range[1], range[2], today)

SpecJoin == InitJoin /\ [][NextJoin]_vars

\* -------------------------------------------- CTC/level distribution report

\* an amount of whole currency units in hundredths
Units(n) == n * 100

\* the sort key of order_by('-start_of_ctc', '-emp_ctc_id') turned around:
\* the oldest row first
CtcOrderBefore_ascending(a, b) ==
  \/ a.start_of_ctc < b.start_of_ctc
  \/ a.start_of_ctc = b.start_of_ctc /\ a.emp_ctc_id < b.emp_ctc_id

\* order_by('-start_of_ctc', '-emp_ctc_id'): row a is listed before row b
CtcOrderBefore(a, b) ==
  \/ a.start_of_ctc > b.start_of_ctc
  \/ a.start_of_ctc = b.start_of_ctc /\ a.emp_ctc_id > b.emp_ctc_id

NoCtcRow == [emp_ctc_id |-> None]

\* the most recent row of the whole table, whoever its employee is
latest_ctc_of_anyone(rows, emp_id_int) ==
  IF rows = {} THEN NoCtcRow
  ELSE CHOOSE row \in rows : \A other \in rows \ {row} : CtcOrderBefore(row, other)

\* filter(emp_id=emp_id_int).order_by(...).first() if emp_id_int is not None
\* else None
latest_ctc(rows, emp_id_int) ==
  IF emp_id_int = None \/ existing_rows(rows, emp_id_int) = {} THEN NoCtcRow
  ELSE CHOOSE row \in existing_rows(rows, emp_id_int) :
         \A other \in existing_rows(rows, emp_id_int) \ {row} :
           CtcOrderBefore(row, other)

\* the bands with the upper limit of the middle band exclusive
salary_band_upper_exclusive(ctc) ==
  IF ctc < Units(700000) THEN "Below 7L"
  ELSE IF ctc < Units(1200000) THEN "7L - 12L"
  ELSE "Above 12L"

\* lines 1287-1295
salary_band(ctc) ==
  IF ctc < Units(700000) THEN "Below 7L"
  ELSE IF ctc <= Units(1200000) THEN "7L - 12L"
  ELSE "Above 12L"

\* a report over every employee, exited or not
ActiveEmployees_all(employees) == DOMAIN employees

\* EmpMasterMirror.objects.filter(end_date__isnull=True)
ActiveEmployees(employees) ==
  {e \in DOMAIN employees : employees[e].end_date = None}

\* the row appended for emp (lines 1276-1305)
DistributionRow(rows, emp) ==
  LET latest == latest_ctc(rows, _to_int_emp_id(emp.emp_id))
      level == IF latest # NoCtcRow
               THEN _format_role_level(latest.main_level, latest.sub_level)
               ELSE _format_role_level(NoneLevel, "")
      ctc == IF latest # NoCtcRow THEN latest.ctc_amt ELSE 0
  IN [emp_id |-> emp.emp_id, level |-> level, annual_ctc |-> ctc,
      salary_band |-> salary_band(ctc)]

SalaryBands == {"Below 7L", "7L - 12L", "Above 12L"}

\* ApiCTCLevelDistributionReportView.get: the rows of 'employees' are kept as
\* a set, the order of the unordered queryset being the database's choice
ApiCTCLevelDistributionReportViewGetResult(employees, rows) ==
  LET report == {DistributionRow(rows, employees[e]) : e \in ActiveEmployees(employees)}
  IN [status |-> 200,
      salary_bands |-> [band \in SalaryBands |->
                          Cardinality({r \in report : r.salary_band = band})],
      level_counts |-> [level \in {r.level : r \in report} |->
                          Cardinality({r \in report : r.level = level})],
      employees |-> report]

ApiCTCLevelDistributionReportViewGet ==
  /\ resp' = ApiCTCLevelDistributionReportViewGetResult(emp_master, ctc_master)
  /\ req' = [op |-> "ctc_level_distribution"]
  /\ UNCHANGED <<emp_master, ctc_master, compliance_master, pending>>

\* the CTC tables of the report hold at most MaxDistRows rows
MaxDistRows == 2

\* the amounts next to the two limits, as int(float(annual_ctc)) stores them
DistAmounts ==
  {Units(699999), Units(700000), Units(1200000), Units(1200001)}

DistDays == {Date(2025, 1, 1), Date(2025, 2, 1)}

\* the columns of a stored row but its emp_ctc_id; a row is in effect for one
\* day, so that rows of one employee with different start dates do not overlap
DistRowShapes ==
  {[emp_id |-> e, main_level |-> 2, sub_level |-> "L", start_of_ctc |-> s,
    end_of_ctc |-> s, ctc_amt |-> a] :
     e \in {1, 2}, s \in DistDays, a \in DistAmounts}

\* the tables n inserts leave, emp_ctc_id counting the inserts; two rows of one
\* employee may share a start date (two POSTs served concurrently)
DistCtcTables ==
  UNION {{{[emp_ctc_id |-> i, emp_id |-> f[i].emp_id, main_level |-> f[i].main_level,
            sub_level |-> f[i].sub_level, start_of_ctc |-> f[i].start_of_ctc,
            end_of_ctc |-> f[i].end_of_ctc, ctc_amt |-> f[i].ctc_amt] : i \in 1..n} :
           f \in [1..n -> DistRowShapes]} : n \in 0..MaxDistRows}

\* employees "1", "2" and "E3", of which "1" and "2" may have exited
DistEmpTables ==
  {[e \in {"1", "2", "E3"} |->
      [emp_id |-> e, start_date |-> Date(2025, 1, 1),
       end_date |-> IF e \in exited THEN Date(2025, 2, 1) ELSE None]] :
     exited \in SUBSET {"1", "2"}}

InitDist ==
  /\ emp_master \in DistEmpTables
  /\ ctc_master \in DistCtcTables
  /\ compliance_master = {}
  /\ pending = [p \in Procs |-> NoPending]
  /\ req = [op |-> ""]
  /\ resp = [status |-> 0]

NextDist == ApiCTCLevelDistributionReportViewGet

SpecDist == InitDist /\ [][NextDist]_vars

\* ------------------------------------------------------------ timelines

\* the lists a query over rows can return under an ORDER BY whose key puts a
\* before b when <<a, b>> is in before: every arrangement of rows in which no
\* row stands after a row it is put before.  Rows with equal keys come in an
\* order the database chooses.
OrderedBy(rows, before) ==
  {seq \in [1..Cardinality(rows) -> rows] :
     \A i \in 1..Cardinality(rows) : \A j \in (i + 1)..Cardinality(rows) :
       seq[i] # seq[j] /\ <<seq[j], seq[i]>> \notin before}

TimelineResponse(status, error, employee, timeline) ==
  [status |-> status, error |-> error, employee |-> employee, timeline |-> timeline]

TimelineRequest(op, emp_id) == [op |-> op, emp_id |-> emp_id]

\* the list ordered on the start date alone
RoleChangeOrderBefore_start_only(a, b) == a.start_of_ctc > b.start_of_ctc

\* order_by('-start_of_ctc', '-emp_ctc_id') of line 871
RoleChangeOrderBefore(a, b) ==
  \/ a.start_of_ctc > b.start_of_ctc
  \/ a.start_of_ctc = b.start_of_ctc /\ a.emp_ctc_id > b.emp_ctc_id

\* ApiEmployeeRoleChangeView.get: the responses the request can be given
ApiEmployeeRoleChangeViewGetResults(employees, rows, emp_id) ==
  IF _get_emp_master(employees, emp_id) = NoEmployee
  THEN {TimelineResponse(404, "Employee not found.", NoEmployeeDict, <<>>)}
  ELSE IF _to_int_emp_id(_get_emp_master(employees, emp_id)) = None
  THEN {TimelineResponse(400, "Employee ID must be numeric for CTC records.",
                         NoEmployeeDict, <<>>)}
  ELSE {TimelineResponse(200, "",
                         _mirror_to_employee_dict(employees[_get_emp_master(employees, emp_id)]),
                         [i \in 1..Len(ordered) |-> _ctc_row_to_timeline(ordered[i])]) :
          ordered \in OrderedBy(existing_rows(rows, _to_int_emp_id(_get_emp_master(employees, emp_id))),
                                {pair \in rows \X rows : RoleChangeOrderBefore(pair[1], pair[2])})}

ApiEmployeeRoleChangeViewGet(emp_id) ==
  /\ resp' \in ApiEmployeeRoleChangeViewGetResults(emp_master, ctc_master, emp_id)
  /\ req' = TimelineRequest("role_get", emp_id)
  /\ UNCHANGED <<emp_master, ctc_master, compliance_master, pending>>

\* order_by('-start_of_ctc') of line 661
ProfileOrderBefore(a, b) == a.start_of_ctc > b.start_of_ctc

\* an entry of ctc_timeline (lines 686-694)
ProfileCtcEntry(row) ==
  [effective_from |-> row.start_of_ctc, annual_ctc |-> row.ctc_amt]

\* ApiEmployeeProfileView.get, its ctc_timeline: the responses the request
\* can be given
ApiEmployeeProfileViewGetResults(employees, rows, emp_id) ==
  IF emp_id \notin DOMAIN employees
  THEN {TimelineResponse(404, "Employee not found.", NoEmployeeDict, <<>>)}
  ELSE IF _to_int_emp_id(emp_id) = None
  THEN {TimelineResponse(200, "", _mirror_to_employee_dict(employees[emp_id]), <<>>)}
  ELSE {TimelineResponse(200, "", _mirror_to_employee_dict(employees[emp_id]),
                         [i \in 1..Len(ctc_rows) |-> ProfileCtcEntry(ctc_rows[i])]) :
          ctc_rows \in OrderedBy(existing_rows(rows, _to_int_emp_id(emp_id)),
                                 {pair \in rows \X rows : ProfileOrderBefore(pair[1], pair[2])})}

ApiEmployeeProfileViewGet(emp_id) ==
  /\ resp' \in ApiEmployeeProfileViewGetResults(emp_master, ctc_master, emp_id)
  /\ req' = TimelineRequest("profile_get", emp_id)
  /\ UNCHANGED <<emp_master, ctc_master, compliance_master, pending>>

\* the role changes recorded for employee "1" while its timelines are read:
\* two amounts, open-ended or ending on the day they start
\* the (effective_from, effective_to) of the POSTs for employees without CTC
\* records: a valid range, an unparsable date and an end before the start
EarlyDates == {<<1, None>>, <<BadDate, None>>, <<MaxDate, 1>>}

RaisedBody == [FullBody EXCEPT !.annual_ctc = 120000000]

NextTimeline ==
  \/ \E p \in Procs, body \in {FullBody, RaisedBody}, effective_from \in Dates,
        open \in BOOLEAN :
          RoleChangeBegin(p, "1", body, effective_from,
                          IF open THEN None ELSE effective_from)
  \/ \E p \in Procs, emp_id \in {"E3", "E9"}, dates \in EarlyDates :
          RoleChangeBegin(p, emp_id, FullBody, dates[1], dates[2])
  \/ \E p \in Procs : RoleChangeFinish(p)
  \/ \E emp_id \in {"1", "01", "E3", "E9"} : ApiEmployeeRoleChangeViewGet(emp_id)
  \/ \E emp_id \in {"1", "01", "E3", "E9"} : ApiEmployeeProfileViewGet(emp_id)

SpecTimeline == InitRole /\ [][NextTimeline]_vars

\* ------------------------------------------------------ role-change claims

\* an absent end is the maximum date
EndOrMax(end) == IF end = None THEN DateMax ELSE end

\* closed intervals [s1,e1] and [s2,e2] share a day
Conflict(s1, e1, s2, e2) == s1 <= EndOrMax(e2) /\ s2 <= EndOrMax(e1)

OverlapMessage == "Role change dates overlap with an existing record."
InvalidRangeMessage == "effective_to cannot be before effective_from."

\* the integer emp_id under which the rows of the employee addressed by
\* request r are stored (None when there is no such employee or id)
OwnerOf(r) ==
  IF _get_emp_master(emp_master, r.emp_id) = NoEmployee THEN None
  ELSE _to_int_emp_id(_get_emp_master(emp_master, r.emp_id))

\* r is a role-change POST for a numeric employee with every required field
\* and well-formed dates
WellFormedRolePost(r) ==
  /\ r.op = "role_post"
  /\ OwnerOf(r) # None
  /\ r.body.role_title # "" /\ r.body.role_level \notin {<<>>, <<" ">>}
  /\ r.body.annual_ctc # None
  /\ r.d1 \in Dates
  /\ r.d2 \in Dates \cup {None}

\* C1: a well-formed candidate [s1,e1] with e1 >= s1 is rejected as an
\* overlap if and only if s1 <= e2 and s2 <= e1 for some stored interval
\* [s2,e2] of the same employee (absent end = maximum date, touching
\* intervals included); otherwise it passes the check and, its amount being
\* numeric, is answered 201 and stored.
C1_OverlapCheckIsExact ==
  [][(WellFormedRolePost(req') /\ (req'.d2 = None \/ req'.d2 >= req'.d1)) =>
       LET conflict == \E old \in ctc_master :
                         /\ old.emp_id = OwnerOf(req')
                         /\ Conflict(req'.d1, req'.d2, old.start_of_ctc, old.end_of_ctc)
       IN /\ (resp'.status = 400 /\ resp'.error = OverlapMessage) <=> conflict
          /\ (~conflict /\ req'.body.annual_ctc # BadAmount) =>
               /\ resp'.status = 201
               /\ \E row \in ctc_master' \ ctc_master :
                    /\ row.emp_id = OwnerOf(req')
                    /\ row.start_of_ctc = req'.d1
                    /\ row.end_of_ctc = req'.d2]_vars

\* a candidate that starts on the last day of a stored interval of the same
\* employee has been rejected as an overlap
C1_Witness ==
  /\ WellFormedRolePost(req)
  /\ resp.status = 400 /\ resp.error = OverlapMessage
  /\ \E old \in ctc_master :
       /\ old.emp_id = OwnerOf(req)
       /\ old.end_of_ctc = req.d1
       /\ old.start_of_ctc < req.d1

\* C2: no two stored CTC rows of the same employee overlap, in every state
\* reached from an empty CTC table by role-change POSTs served one at a time.
C2_NoOverlappingRows ==
  \A a \in ctc_master : \A b \in ctc_master :
    (a # b /\ a.emp_id = b.emp_id) =>
      ~Conflict(a.start_of_ctc, a.end_of_ctc, b.start_of_ctc, b.end_of_ctc)

\* two intervals of one employee are stored, the later one open-ended, and a
\* further candidate for that employee has been answered
C2_Witness ==
  /\ req.op = "role_post"
  /\ \E a \in ctc_master : \E b \in ctc_master :
       /\ a # b /\ a.emp_id = b.emp_id /\ a.emp_id = OwnerOf(req)
       /\ b.end_of_ctc = None

\* C3: with two role-change POSTs for the same employee served concurrently,
\* at most one of two overlapping candidates is persisted: any two stored
\* rows of one employee lie entirely before or after each other.
C3_ConcurrentPostsKeepRowsDisjoint ==
  \A a \in ctc_master : \A b \in ctc_master :
    (a.emp_ctc_id # b.emp_ctc_id /\ a.emp_id = b.emp_id) =>
      \/ EndOrMax(a.end_of_ctc) < b.start_of_ctc
      \/ EndOrMax(b.end_of_ctc) < a.start_of_ctc

\* C4: a candidate whose effective_to is present and earlier than its
\* effective_from is answered with the invalid-range rejection, whether or
\* not it overlaps a stored row, and every stored interval has its end
\* absent or >= its start.
C4_InvalidRangeRejectedFirst ==
  [][/\ (WellFormedRolePost(req') /\ req'.d2 # None /\ req'.d2 < req'.d1) =>
          /\ resp'.status = 400
          /\ resp'.error = InvalidRangeMessage
     /\ \A row \in ctc_master' :
          row.end_of_ctc = None \/ row.end_of_ctc >= row.start_of_ctc]_vars

\* an inverted candidate that also overlaps a stored row of the same employee
\* has been answered
C4_Witness ==
  /\ WellFormedRolePost(req)
  /\ req.d2 # None /\ req.d2 < req.d1
  /\ resp.error = InvalidRangeMessage
  /\ \E old \in ctc_master :
       /\ old.emp_id = OwnerOf(req)
       /\ Conflict(req.d2, req.d1, old.start_of_ctc, old.end_of_ctc)

\* C5: a role-change POST answered 400 persists nothing: the stored CTC rows
\* after the request are exactly those before it.
C5_RejectedPostPersistsNothing ==
  [][(req'.op = "role_post" /\ resp'.status = 400) => ctc_master' = ctc_master]_vars

\* an overlap or invalid-range rejection has been answered with rows stored
C5_Witness ==
  /\ req.op = "role_post"
  /\ resp.status = 400
  /\ resp.error \in {OverlapMessage, InvalidRangeMessage}
  /\ ctc_master # {}

\* ------------------------------------------------- employee lifecycle claims

Employees == DOMAIN emp_master

\* C6: every employee record whose end_date is present has
\* end_date >= start_date, in every state reachable by create, update, exit
\* and exit-workflow requests.
C6_EndDateNotBeforeStartDate ==
  \A e \in Employees :
    emp_master[e].end_date # None => emp_master[e].end_date >= emp_master[e].start_date

\* C7: once an employee record has an end_date, no later exit or
\* exit-workflow request changes that end_date.
C7_EndDateSetOnce ==
  [][req'.op \in {"exit", "exit_workflow"} =>
       \A e \in Employees :
         emp_master[e].end_date # None =>
           emp_master'[e].end_date = emp_master[e].end_date]_vars

\* C8: an exited employee (end_date present) stays exited: no create, update,
\* exit or exit-workflow request makes its end_date absent again.
C8_NoReactivation ==
  [][\A e \in Employees :
       emp_master[e].end_date # None =>
         e \in DOMAIN emp_master' /\ emp_master'[e].end_date # None]_vars

\* an update request has succeeded on an employee that had already exited
C8_Witness ==
  /\ req.op = "put" /\ resp.status = 200 /\ req.d1 \in Dates
  /\ req.emp_id \in Employees
  /\ emp_master[req.emp_id].end_date # None

\* C9: an exit request for an existing employee whose end date is earlier
\* than the employee's start_date is answered 400 'End date cannot be earlier
\* than start date.' and leaves every employee record as it was.
C9_ExitBeforeStartRejected ==
  [][(/\ req'.op = "exit"
      /\ req'.d1 \in Dates
      /\ _get_emp_master(emp_master, req'.emp_id) # NoEmployee
      /\ req'.d1 < emp_master[_get_emp_master(emp_master, req'.emp_id)].start_date)
     => (/\ resp'.status = 400
         /\ resp'.error = "End date cannot be earlier than start date."
         /\ emp_master' = emp_master)]_vars

\* an exit request with an end date before the start date has been answered
C9_Witness ==
  /\ req.op = "exit" /\ req.d1 \in Dates
  /\ _get_emp_master(emp_master, req.emp_id) # NoEmployee
  /\ req.d1 < emp_master[_get_emp_master(emp_master, req.emp_id)].start_date
  /\ emp_master[_get_emp_master(emp_master, req.emp_id)].end_date = None
  /\ resp.status = 400

\* C10: a reported status is 'active' exactly when the reported end_date is
\* absent and 'exited' otherwise; after a successful exit request the
\* employee is reported and stored with status 'exited' and the end_date
\* that was supplied.
C10_StatusDerivedFromEndDate ==
  /\ resp.employee # NoEmployeeDict =>
       /\ resp.employee.status \in {"active", "exited"}
       /\ resp.employee.status = "active" <=> resp.employee.end_date = None
  /\ (req.op = "exit" /\ resp.status = 200) =>
       /\ resp.employee.status = "exited"
       /\ resp.employee.end_date = req.d1
       /\ resp.employee.emp_id \in Employees
       /\ emp_master[resp.employee.emp_id].end_date = req.d1

\* an exit request has succeeded
C10_Witness ==
  /\ req.op = "exit" /\ resp.status = 200
  /\ resp.employee.status = "exited"
  /\ req.d1 \in Dates

\* ------------------------------------------------ joiners/leavers claims

\* the range a report request asks for: a missing start is 2024-01-01 and a
\* missing end is the day the request is served
RangeStart(r) == IF r.start = None THEN DefaultStart ELSE r.start
RangeEnd(r) == IF r.end = None THEN r.today ELSE r.end

\* r is a report request whose two dates parse
ParsedRange(r) ==
  /\ r.op = "joiners_leavers"
  /\ RangeStart(r) \in 1..DateMax
  /\ RangeEnd(r) \in 1..DateMax

ValidRange(r) == ParsedRange(r) /\ RangeEnd(r) >= RangeStart(r)

\* the number of the calendar month of a key or a date, counted from year 0
MonthIndex(key) == key.year * 12 + key.month - 1
MonthIndexOf(d) == Year(d) * 12 + Month(d) - 1

InMonth(d, key) == Year(d) = key.year /\ Month(d) = key.month
InRange(d, r) == RangeStart(r) <= d /\ d <= RangeEnd(r)

\* C11: for every range with range_end >= range_start the report has exactly
\* one row per calendar month from the month of range_start through the month
\* of range_end, 12*(year(end)-year(start)) + month(end) - month(start) + 1
\* rows in all, and a month in which no employee starts or ends appears with
\* both counts 0.
C11_OneRowPerMonth ==
  ValidRange(req) =>
    /\ resp.status = 200
    /\ Len(resp.monthly) = 12 * (Year(RangeEnd(req)) - Year(RangeStart(req)))
                             + Month(RangeEnd(req)) - Month(RangeStart(req)) + 1
    /\ \A n \in MonthIndexOf(RangeStart(req))..MonthIndexOf(RangeEnd(req)) :
         Cardinality({i \in 1..Len(resp.monthly) :
                        MonthIndex(resp.monthly[i].month) = n}) = 1
    /\ \A i \in 1..Len(resp.monthly) :
         /\ resp.monthly[i].month.month \in 1..12
         /\ (\A e \in Employees :
               /\ ~InMonth(emp_master[e].start_date, resp.monthly[i].month)
               /\ emp_master[e].end_date # None =>
                    ~InMonth(emp_master[e].end_date, resp.monthly[i].month))
            => (resp.monthly[i].joiners = 0 /\ resp.monthly[i].leavers = 0)

\* a report over the end of a year with a month without events between months
\* with events
C11_Witness ==
  /\ ValidRange(req) /\ resp.status = 200
  /\ Year(RangeStart(req)) < Year(RangeEnd(req))
  /\ Len(resp.monthly) = 4
  /\ resp.monthly[2].joiners = 1 /\ resp.monthly[2].leavers = 0
  /\ resp.monthly[3].joiners = 0 /\ resp.monthly[3].leavers = 0
  /\ resp.monthly[4].leavers = 1

\* C12: the rows are in ascending month order, each row's month the calendar
\* month right after the previous row's (January of the next year after
\* December), none skipped and none repeated.
C12_MonthsConsecutive ==
  (req.op = "joiners_leavers" /\ resp.status = 200) =>
    \A i \in 1..(Len(resp.monthly) - 1) :
      resp.monthly[i + 1].month =
        IF resp.monthly[i].month.month = 12
        THEN [year |-> resp.monthly[i].month.year + 1, month |-> 1]
        ELSE [year |-> resp.monthly[i].month.year,
              month |-> resp.monthly[i].month.month + 1]

\* a report whose rows go from December to January and on to March
C12_Witness ==
  /\ req.op = "joiners_leavers" /\ resp.status = 200
  /\ Len(resp.monthly) >= 4
  /\ \E i \in 1..(Len(resp.monthly) - 2) :
       /\ resp.monthly[i].month = [year |-> 2024, month |-> 12]
       /\ resp.monthly[i + 1].month = [year |-> 2025, month |-> 1]
       /\ resp.monthly[i + 2].month = [year |-> 2025, month |-> 2]

\* C13 as stated: in every row the joiners count is the number of employee
\* records whose start_date falls in that row's calendar month, for every
\* range, also one that starts after the first or ends before the last day of
\* a month.
C13_JoinersCountWholeMonth ==
  (req.op = "joiners_leavers" /\ resp.status = 200) =>
    \A i \in 1..Len(resp.monthly) :
      resp.monthly[i].joiners =
        Cardinality({e \in Employees :
                       InMonth(emp_master[e].start_date, resp.monthly[i].month)})

\* C13 amended: in every row the joiners count is the number of employee
\* records whose start_date lies within [range_start, range_end] and falls in
\* that row's calendar month.
C13_JoinersCountInRange ==
  (req.op = "joiners_leavers" /\ resp.status = 200) =>
    \A i \in 1..Len(resp.monthly) :
      resp.monthly[i].joiners =
        Cardinality({e \in Employees :
                       /\ InRange(emp_master[e].start_date, req)
                       /\ InMonth(emp_master[e].start_date, resp.monthly[i].month)})

\* a report whose range starts after the first day of a month: one employee
\* started in that month before the range and one later within the range
C13_Witness ==
  /\ req.op = "joiners_leavers" /\ resp.status = 200
  /\ RangeStart(req) > Date(Year(RangeStart(req)), Month(RangeStart(req)), 1)
  /\ \E e \in Employees :
       /\ InMonth(emp_master[e].start_date, resp.monthly[1].month)
       /\ emp_master[e].start_date < RangeStart(req)
  /\ \E i \in 1..Len(resp.monthly) : resp.monthly[i].joiners = 1

\* C14: in every row the leavers count is the number of employees whose
\* end_date is present, lies within [range_start, range_end] and falls in the
\* row's month; an employee without end_date or with an end_date outside the
\* range is counted in no row, whatever its start_date.
C14_LeaversCountInRange ==
  (req.op = "joiners_leavers" /\ resp.status = 200) =>
    \A i \in 1..Len(resp.monthly) :
      resp.monthly[i].leavers =
        Cardinality({e \in Employees :
                       /\ emp_master[e].end_date # None
                       /\ InRange(emp_master[e].end_date, req)
                       /\ InMonth(emp_master[e].end_date, resp.monthly[i].month)})

\* a report with one leaver counted and one employee whose end_date is in the
\* last reported month but after range_end
C14_Witness ==
  /\ req.op = "joiners_leavers" /\ resp.status = 200
  /\ \E i \in 1..Len(resp.monthly) : resp.monthly[i].leavers = 1
  /\ \E e \in Employees :
       /\ emp_master[e].end_date # None
       /\ emp_master[e].end_date > RangeEnd(req)
       /\ InMonth(emp_master[e].end_date, resp.monthly[Len(resp.monthly)].month)
       /\ resp.monthly[Len(resp.monthly)].leavers = 0

\* C15: a report request whose range end is earlier than its range start is
\* answered 400 'end cannot be before start.' with no monthly rows; a request
\* whose end equals its start is accepted and answered with one row.
C15_InvertedRangeRejected ==
  /\ (ParsedRange(req) /\ RangeEnd(req) < RangeStart(req)) =>
       /\ resp.status = 400
       /\ resp.error = "end cannot be before start."
       /\ resp.monthly = <<>>
  /\ (ParsedRange(req) /\ RangeEnd(req) = RangeStart(req)) =>
       /\ resp.status = 200
       /\ Len(resp.monthly) = 1

\* a request whose end is before its start has been answered
C15_Witness ==
  /\ ParsedRange(req)
  /\ req.start # None /\ req.end # None
  /\ RangeEnd(req) < RangeStart(req)
  /\ resp.status = 400

\* ------------------------------------------------ distribution claims

\* the rows of the report for employee e
ReportRowsOf(e) == {r \in resp.employees : r.emp_id = e}

\* C16: with the limits 700000 and 1200000 every active employee is counted in
\* exactly one band: the lowest when its amount a < 700000, the middle when
\* 700000 <= a <= 1200000 (1200000 included), the highest when a > 1200000.
\* Amounts are in hundredths: 700000 is 70000000, 1200000 is 120000000.
C16_ExactlyOneBand ==
  req.op = "ctc_level_distribution" =>
    /\ \A e \in Employees :
         emp_master[e].end_date = None =>
           /\ Cardinality(ReportRowsOf(e)) = 1
           /\ \A r \in ReportRowsOf(e) :
                /\ r.annual_ctc < 70000000 => r.salary_band = "Below 7L"
                /\ (70000000 <= r.annual_ctc /\ r.annual_ctc <= 120000000)
                     => r.salary_band = "7L - 12L"
                /\ r.annual_ctc > 120000000 => r.salary_band = "Above 12L"
    /\ \A band \in DOMAIN resp.salary_bands :
         resp.salary_bands[band] =
           Cardinality({e \in Employees :
                          /\ emp_master[e].end_date = None
                          /\ \E r \in ReportRowsOf(e) : r.salary_band = band})
    /\ resp.salary_bands["Below 7L"] + resp.salary_bands["7L - 12L"]
         + resp.salary_bands["Above 12L"]
       = Cardinality({e \in Employees : emp_master[e].end_date = None})

\* a report with an active employee at exactly 1200000 in the middle band,
\* one at 1200001 in the highest and one without rows in the lowest
C16_Witness ==
  /\ req.op = "ctc_level_distribution"
  /\ \E r \in resp.employees : r.annual_ctc = 120000000 /\ r.salary_band = "7L - 12L"
  /\ \E r \in resp.employees : r.annual_ctc = 120000100 /\ r.salary_band = "Above 12L"
  /\ \E r \in resp.employees : r.annual_ctc = 0 /\ r.salary_band = "Below 7L"

\* the CTC rows stored for employee e (none when its emp_id is not a number)
CtcRowsOf(e) ==
  {row \in ctc_master : PyInt(e) # None /\ row.emp_id = PyInt(e)}

\* row is the most recent of rows: the greatest start date, and the greatest
\* emp_ctc_id among the rows with that start date
MostRecent(row, rows) ==
  \A other \in rows :
    \/ other.start_of_ctc < row.start_of_ctc
    \/ other.start_of_ctc = row.start_of_ctc /\ other.emp_ctc_id <= row.emp_ctc_id

\* C17: for each active employee the report gives the amount and level of the
\* employee's single most recent compensation row (greatest start date, among
\* equal start dates the greatest emp_ctc_id), amount 0 when it has no row;
\* an exited employee has no row in the report and is counted in no band.
C17_MostRecentRowOfActiveEmployees ==
  req.op = "ctc_level_distribution" =>
    /\ \A r \in resp.employees :
         /\ r.emp_id \in Employees
         /\ emp_master[r.emp_id].end_date = None
    /\ \A e \in Employees :
         emp_master[e].end_date = None =>
           \E r \in resp.employees :
             /\ r.emp_id = e
             /\ IF CtcRowsOf(e) = {} THEN r.annual_ctc = 0
                ELSE \E row \in CtcRowsOf(e) :
                       /\ MostRecent(row, CtcRowsOf(e))
                       /\ r.annual_ctc = row.ctc_amt
    /\ resp.salary_bands["Below 7L"] + resp.salary_bands["7L - 12L"]
         + resp.salary_bands["Above 12L"] = Cardinality(resp.employees)

\* a report made with an exited employee stored, and an active employee with
\* two rows of the same start date and different amounts
C17_Witness ==
  /\ req.op = "ctc_level_distribution"
  /\ \E e \in Employees : emp_master[e].end_date # None /\ PyInt(e) # None
  /\ \E e \in Employees :
       /\ emp_master[e].end_date = None
       /\ \E a \in CtcRowsOf(e), b \in CtcRowsOf(e) :
            /\ a.start_of_ctc = b.start_of_ctc
            /\ a.emp_ctc_id < b.emp_ctc_id
            /\ a.ctc_amt > b.ctc_amt

\* ------------------------------------------------------- timeline claims

\* the stored CTC rows of the employee a timeline was answered for, most
\* recent start first and, among equal starts, the row created later first
ChronologicalRows(e) ==
  CHOOSE seq \in [1..Cardinality(CtcRowsOf(e)) -> CtcRowsOf(e)] :
    \A i \in 1..Cardinality(CtcRowsOf(e)) : \A j \in (i + 1)..Cardinality(CtcRowsOf(e)) :
      \/ seq[i].start_of_ctc > seq[j].start_of_ctc
      \/ /\ seq[i].start_of_ctc = seq[j].start_of_ctc
         /\ seq[i].emp_ctc_id > seq[j].emp_ctc_id

\* C18: every timeline answered for an employee, the role-change list and the
\* ctc_timeline of the profile, lists the employee's records by start date
\* descending, two records of the same start date with the one created later
\* first.
C18_TimelinesChronological ==
  /\ (req.op = "role_get" /\ resp.status = 200) =>
       /\ Len(resp.timeline) = Cardinality(CtcRowsOf(resp.employee.emp_id))
       /\ \A i \in 1..Len(resp.timeline) :
            /\ resp.timeline[i].id = ChronologicalRows(resp.employee.emp_id)[i].emp_ctc_id
            /\ resp.timeline[i].effective_from
                 = ChronologicalRows(resp.employee.emp_id)[i].start_of_ctc
  /\ (req.op = "profile_get" /\ resp.status = 200) =>
       /\ Len(resp.timeline) = Cardinality(CtcRowsOf(resp.employee.emp_id))
       /\ \A i \in 1..Len(resp.timeline) :
            /\ resp.timeline[i].effective_from
                 = ChronologicalRows(resp.employee.emp_id)[i].start_of_ctc
            /\ resp.timeline[i].annual_ctc
                 = ChronologicalRows(resp.employee.emp_id)[i].ctc_amt

\* C19: a role-change list read again for the same employee, no request
\* having written in between, is answered with the identical response, and
\* reading the list changes no stored employee or CTC row.
C19_TimelineReadIdempotent ==
  [][req'.op = "role_get" =>
       /\ emp_master' = emp_master
       /\ ctc_master' = ctc_master
       /\ (req.op = "role_get" /\ req.emp_id = req'.emp_id) => resp' = resp]_vars

\* the role-change list of an employee with two rows of the same start date
\* has been read
C19_Witness ==
  /\ req.op = "role_get" /\ resp.status = 200
  /\ Len(resp.timeline) = 2
  /\ resp.timeline[1].effective_from = resp.timeline[2].effective_from
  /\ resp.timeline[1].id > resp.timeline[2].id

\* C20: the CTC history is append-only: a role-change POST answered 201 adds
\* exactly one new row, a POST answered otherwise adds none, and after either
\* every row stored before, of that employee and of all others, is stored
\* unchanged; no employee record changes.
C20_HistoryAppendOnly ==
  [][req'.op = "role_post" =>
       /\ ctc_master \subseteq ctc_master'
       /\ resp'.status = 201 =>
            /\ Cardinality(ctc_master' \ ctc_master) = 1
            /\ \A row \in ctc_master' \ ctc_master :
                 \A old \in ctc_master : old.emp_ctc_id # row.emp_ctc_id
       /\ resp'.status # 201 => ctc_master' = ctc_master
       /\ emp_master' = emp_master]_vars

\* a second role change of an employee has been stored after the first
C20_Witness ==
  /\ req.op = "role_post" /\ resp.status = 201
  /\ \E old \in ctc_master :
       /\ old.emp_id = OwnerOf(req)
       /\ old.emp_ctc_id < resp.record.id
       /\ old.start_of_ctc < resp.record.effective_from

\* ------------------------------------------------ concurrent create requests
\* Two create requests served at the same time.  The SELECT of .exists()
\* (line 573) and the INSERT of objects.create (line 577) are separate
\* statements of an autocommit connection.

\* str(exc) of the IntegrityError the database raises for a second row with
\* the same primary key
DuplicateKeyError == "Duplicate entry for key 'PRIMARY'"

\* an INSERT that writes over the stored row of the same emp_id
InsertEmployee_overwrites(rows, employee) ==
  [resp |-> Response(201, "", _mirror_to_employee_dict(employee), NoRecord),
   rows |-> SaveRow(rows, employee)]

\* lines 576-587: objects.create is an INSERT; emp_id is the primary key of
\* emp_master, so the INSERT of a stored emp_id raises and the except branch
\* answers 400 with the text of the exception
InsertEmployee(rows, employee) ==
  IF employee.emp_id \in DOMAIN rows
  THEN [resp |-> Response(400, DuplicateKeyError, NoEmployeeDict, NoRecord),
        rows |-> rows]
  ELSE [resp |-> Response(201, "", _mirror_to_employee_dict(employee), NoRecord),
        rows |-> SaveRow(rows, employee)]

\* the emp_ids stored or about to be inserted
ClaimedIds == DOMAIN emp_master \cup {pending[q].emp_id : q \in {q \in Procs : pending[q].pc = "insert"}}

\* lines 556-574 of a create request served by worker p
EmployeeCreateBegin(p, emp_id, first_name, last_name, start_date) ==
  \E early \in {ApiEmployeeCreateViewPostResult(emp_master, emp_id, first_name,
                                               last_name, start_date)} :
     /\ pending[p].pc = "idle"
     /\ IF early.resp.status # 201
        THEN /\ resp' = early.resp
             /\ req' = Request("create", emp_id, start_date, None)
             /\ UNCHANGED pending
        ELSE /\ Cardinality(ClaimedIds \cup {emp_id}) <= MaxEmployees
             /\ pending' = [pending EXCEPT ![p] =
                  [pc |-> "insert", emp_id |-> emp_id, start_date |-> start_date]]
             /\ UNCHANGED <<req, resp>>
     /\ UNCHANGED <<emp_master, ctc_master, compliance_master>>

\* lines 576-587 of the request worker p is serving
EmployeeCreateFinish(p) ==
  /\ pending[p].pc = "insert"
  /\ \E r \in {InsertEmployee(emp_master,
                              [emp_id |-> pending[p].emp_id,
                               start_date |-> _parse_iso_date(pending[p].start_date),
                               end_date |-> None])} :
        /\ emp_master' = r.rows
        /\ resp' = r.resp
  /\ req' = Request("create", pending[p].emp_id, pending[p].start_date, None)
  /\ pending' = [pending EXCEPT ![p] = NoPending]
  /\ UNCHANGED <<ctc_master, compliance_master>>

NextCreate ==
  \/ \E p \in Procs, emp_id \in EmpIds, start_date \in DateInputs :
          EmployeeCreateBegin(p, emp_id, "A", "B", start_date)
  \/ \E p \in Procs : EmployeeCreateFinish(p)

SpecCreate == Init /\ [][NextCreate]_vars

\* ------------------------------------------------- claims: unique emp_ids

\* the step answers a request (it does not only pass the request's checks)
CreateAnswered ==
  \A p \in Procs : pending'[p].pc = "insert" => pending[p].pc = "insert"

\* the step answers a complete create request for a stored emp_id
DuplicateCreateAnswered ==
  /\ CreateAnswered
  /\ req'.op = "create" /\ req'.d1 \in Dates
  /\ req'.emp_id \in DOMAIN emp_master

\* C21 as stated: a create request for the emp_id of a stored employee, also
\* one interleaved with another create of that emp_id, is answered 400
\* 'Employee ID already exists.' and leaves the employee records unchanged.
C21_DuplicateCreateSaysExists ==
  [][DuplicateCreateAnswered =>
       /\ resp'.status = 400
       /\ resp'.error = "Employee ID already exists."
       /\ emp_master' = emp_master]_vars

\* C21: a create request for the emp_id of a stored employee is answered 400
\* and leaves the employee records unchanged, also when two create requests
\* of one emp_id are interleaved; the error is 'Employee ID already exists.'
\* when the employee was stored at the request's existence check, and the
\* database's duplicate-key error when it was inserted after that check.
C21_DuplicateCreateRejected ==
  [][DuplicateCreateAnswered =>
       /\ resp'.status = 400
       /\ emp_master' = emp_master
       /\ pending' = pending => resp'.error = "Employee ID already exists."
       /\ pending' # pending => resp'.error = DuplicateKeyError]_vars

\* the second of two interleaved creates of one emp_id, sent with another
\* start date, has been refused and the first one's record is stored
C21_Witness ==
  /\ req.op = "create" /\ resp.status = 400 /\ resp.error = DuplicateKeyError
  /\ req.emp_id \in DOMAIN emp_master
  /\ emp_master[req.emp_id].start_date # req.d1

\* ---------------------------------------------- employee detail requests
\* PUT /api/employees/<emp_id> with a body that carries department and
\* position besides the keys the handler reads, and the GET of the record.

DetailRequest(op, emp_id, start_date, department, position) ==
  [op |-> op, emp_id |-> emp_id, d1 |-> start_date, d2 |-> None, body |-> NoBody,
   department |-> department, position |-> position]

\* ApiEmployeeDetailView.put: payload.get is called for first_name, last_name
\* and start_date; the keys department and position of the body are not read
\* and emp_master has no column for them
ApiEmployeeDetailViewPutDetails(emp_id, first_name, last_name, start_date, department, position) ==
  \E r \in {ApiEmployeeDetailViewPutResult(emp_master, emp_id, first_name, last_name, start_date)} :
     /\ emp_master' = r.rows
     /\ resp' = r.resp
     /\ req' = DetailRequest("put_details", emp_id, start_date, department, position)
     /\ UNCHANGED <<ctc_master, compliance_master, pending>>

\* ApiEmployeeDetailView.get
ApiEmployeeDetailViewGet(emp_id) ==
  /\ resp' = IF emp_id \in DOMAIN emp_master
             THEN Response(200, "", _mirror_to_employee_dict(emp_master[emp_id]), NoRecord)
             ELSE Response(404, "Employee not found.", NoEmployeeDict, NoRecord)
  /\ req' = Request("detail_get", emp_id, None, None)
  /\ UNCHANGED <<emp_master, ctc_master, compliance_master, pending>>

\* the departments and positions of the update requests
Departments == {"Operations", "General"}
Positions == {"Program Manager", "Employee"}

NextDetail ==
  \/ \E emp_id \in EmpIds, start_date \in Dates :
          ApiEmployeeCreateViewPost(emp_id, "A", "B", start_date)
  \/ \E emp_id \in EmpIds, names \in PutNames, start_date \in Dates \cup {Absent},
        department \in Departments, position \in Positions :
          ApiEmployeeDetailViewPutDetails(emp_id, names[1], names[2], start_date,
                                          department, position)
  \/ \E emp_id \in EmpIds : ApiEmployeeDetailViewGet(emp_id)

SpecDetail == Init /\ [][NextDetail]_vars

\* ------------------------------------------------ claims: employee update

\* C22: an update answered 200 stores every detail of its body: after a PUT
\* that carries department and position the employee record holds that
\* department and that position, in the answer of the PUT and in the record
\* read afterwards.
C22_UpdateStoresDepartmentAndPosition ==
  [][/\ (req'.op = "put_details" /\ resp'.status = 200) =>
          /\ resp'.employee.department = req'.department
          /\ resp'.employee.position = req'.position
     /\ (req.op = "put_details" /\ resp.status = 200
           /\ req'.op = "detail_get" /\ req'.emp_id = req.emp_id) =>
          /\ resp'.employee.department = req.department
          /\ resp'.employee.position = req.position]_vars

\* ------------------------------------------------- compliance documents
\* A row of emp_compliance_master is
\*   [emp_compliance_tracker_id, emp_id, comp_type, status, doc_url].

\* upload requests insert while fewer than MaxDocs rows are stored
MaxDocs == 2

\* the doc_type, doc_link and status strings of the requests; "" is also an
\* absent key (`payload.get(...) or ''`)
DocTypeInputs == {"PAN", " pan ", "AADHAAR", ""}
DocLinkInputs == {"u1", ""}
StatusInputs == {"pending", "verified", " VERIFIED ", "rejected", ""}

\* str.strip().upper() on the doc_type strings of the model
StripUpper(s) == IF s = " pan " THEN "PAN" ELSE s

\* str.strip().lower() on the status strings of the model
StripLower(s) == IF s = " VERIFIED " THEN "verified" ELSE s

NoDocument == [id |-> None, doc_type |-> "", doc_link |-> "", status |-> ""]

DocumentDict(row) ==
  [id |-> row.emp_compliance_tracker_id, doc_type |-> row.comp_type,
   doc_link |-> row.doc_url, status |-> row.status]

DocResponse(status, error, document) ==
  [status |-> status, error |-> error, document |-> document]

\* the AutoField value of the next INSERT
NextDocId(rows) ==
  IF rows = {} THEN 1
  ELSE 1 + CHOOSE n \in {r.emp_compliance_tracker_id : r \in rows} :
             \A r \in rows : r.emp_compliance_tracker_id <= n

\* objects.update_or_create(emp_id=..., comp_type=..., defaults=...): the row
\* written, the stored row of the key with the defaults assigned or a new row
UpdateOrCreate(rows, emp_id, comp_type, status, doc_url) ==
  IF \E r \in rows : r.emp_id = emp_id /\ r.comp_type = comp_type
  THEN [(CHOOSE r \in rows : r.emp_id = emp_id /\ r.comp_type = comp_type)
          EXCEPT !.status = status, !.doc_url = doc_url]
  ELSE [emp_compliance_tracker_id |-> NextDocId(rows), emp_id |-> emp_id,
        comp_type |-> comp_type, status |-> status, doc_url |-> doc_url]

\* the table after document.save(): the row of this primary key is written
SaveDocument(rows, row) ==
  {r \in rows : r.emp_compliance_tracker_id # row.emp_compliance_tracker_id} \cup {row}

\* ApiEmployeeDocumentsView.post
ApiEmployeeDocumentsViewPostResult(employees, rows, emp_id, doc_type, doc_link) ==
  IF _get_emp_master(employees, emp_id) = NoEmployee
  THEN [resp |-> DocResponse(404, "Employee not found.", NoDocument), rows |-> rows]
  ELSE IF StripUpper(doc_type) = "" \/ doc_link = ""
  THEN [resp |-> DocResponse(400, "doc_type and doc_link are required.", NoDocument),
        rows |-> rows]
  ELSE LET document == UpdateOrCreate(rows, _get_emp_master(employees, emp_id),
                                      StripUpper(doc_type), "pending", doc_link)
       IN [resp |-> DocResponse(201, "", DocumentDict(document)),
           rows |-> SaveDocument(rows, document)]

ApiEmployeeDocumentsViewPost(emp_id, doc_type, doc_link) ==
  \E r \in {ApiEmployeeDocumentsViewPostResult(emp_master, compliance_master, emp_id,
                                              doc_type, doc_link)} :
     /\ Cardinality(r.rows) <= MaxDocs
     /\ compliance_master' = r.rows
     /\ resp' = r.resp
     /\ req' = [op |-> "doc_upload", emp_id |-> emp_id, doc_type |-> doc_type,
                doc_link |-> doc_link]
     /\ UNCHANGED <<emp_master, ctc_master, pending>>

\* a test that lets every requested status through
StatusAccepted_any(status) == TRUE

\* the test `status not in {'pending', 'verified'}` of line 1087, negated
StatusAccepted(status) == status \in {"pending", "verified"}

\* ApiEmployeeDocumentStatusView.post
ApiEmployeeDocumentStatusViewPostResult(employees, rows, emp_id, doc_id, status, remarks) ==
  IF _get_emp_master(employees, emp_id) = NoEmployee
  THEN [resp |-> DocResponse(404, "Employee not found.", NoDocument), rows |-> rows]
  ELSE IF ~ \E r \in rows : /\ r.emp_compliance_tracker_id = doc_id
                            /\ r.emp_id = _get_emp_master(employees, emp_id)
  THEN [resp |-> DocResponse(404, "Document not found.", NoDocument), rows |-> rows]
  ELSE IF ~ StatusAccepted(StripLower(status))
  THEN [resp |-> DocResponse(400, "status must be pending or verified.", NoDocument),
        rows |-> rows]
  ELSE LET stored == CHOOSE r \in rows : r.emp_compliance_tracker_id = doc_id
           document == [stored EXCEPT !.status = StripLower(status),
                                      !.doc_url = IF remarks # "" /\ @ = ""
                                                  THEN remarks ELSE @]
       IN [resp |-> DocResponse(200, "", DocumentDict(document)),
           rows |-> SaveDocument(rows, document)]

ApiEmployeeDocumentStatusViewPost(emp_id, doc_id, status, remarks) ==
  \E r \in {ApiEmployeeDocumentStatusViewPostResult(emp_master, compliance_master, emp_id,
                                                   doc_id, status, remarks)} :
     /\ compliance_master' = r.rows
     /\ resp' = r.resp
     /\ req' = [op |-> "doc_status", emp_id |-> emp_id, doc_id |-> doc_id,
                status |-> status, remarks |-> remarks]
     /\ UNCHANGED <<emp_master, ctc_master, pending>>

NextDocs ==
  \/ \E emp_id \in {"1", "E3", "E9"}, doc_type \in DocTypeInputs,
        doc_link \in DocLinkInputs :
          ApiEmployeeDocumentsViewPost(emp_id, doc_type, doc_link)
  \/ \E emp_id \in {"1", "E3", "E9"}, doc_id \in 1..MaxDocs + 1,
        status \in StatusInputs, remarks \in {"", "seen"} :
          ApiEmployeeDocumentStatusViewPost(emp_id, doc_id, status, remarks)

SpecDocs == InitRole /\ [][NextDocs]_vars

\* ------------------------------------------- claims: compliance documents

\* the stored document a status request addresses: the row of its doc_id that
\* belongs to its employee
AddressedDocs(r) ==
  {row \in compliance_master :
     /\ row.emp_compliance_tracker_id = r.doc_id
     /\ row.emp_id = _get_emp_master(emp_master, r.emp_id)}

DocsById(rows, id) == {row \in rows : row.emp_compliance_tracker_id = id}

\* an upload answered 201 stores its document with status 'pending'
UploadStoresPending ==
  (req'.op = "doc_upload" /\ resp'.status = 201) =>
     /\ resp'.document.status = "pending"
     /\ \E row \in compliance_master' :
          /\ DocumentDict(row) = resp'.document
          /\ row.comp_type = StripUpper(req'.doc_type)
          /\ row.doc_url = req'.doc_link

\* a status request for a stored document with a status of `accepted` is
\* answered 200 with that status, which is stored; with any other status it
\* is answered 400 and no stored row changes
StatusUpdateAccepts(requested, accepted) ==
  (req'.op = "doc_status" /\ AddressedDocs(req') # {}) =>
     IF accepted
     THEN /\ resp'.status = 200
          /\ resp'.document.id = req'.doc_id
          /\ resp'.document.status = requested
          /\ \A row \in DocsById(compliance_master', req'.doc_id) : row.status = requested
     ELSE /\ resp'.status = 400
          /\ compliance_master' = compliance_master

\* C23 as stated: an upload creates the document with status 'pending' (201);
\* a status request for a stored document is accepted (200, the status
\* stored and returned) only when the requested status is 'pending' or
\* 'verified', and any other requested status is answered 400 with the
\* stored rows unchanged.
C23_OnlyPendingOrVerifiedAccepted ==
  [][/\ UploadStoresPending
     /\ StatusUpdateAccepts(req'.status, req'.status \in {"pending", "verified"})]_vars

\* C23: an upload creates the document with status 'pending' (201); a status
\* request for a stored document is accepted (200, the status stored and
\* returned) when the requested status, trimmed and lower-cased, is 'pending'
\* or 'verified', and any other requested status is answered 400 with the
\* stored rows unchanged.
C23_PendingOrVerifiedAfterNormalising ==
  [][/\ UploadStoresPending
     /\ StatusUpdateAccepts(StripLower(req'.status),
                            StripLower(req'.status) \in {"pending", "verified"})]_vars

\* a document uploaded as pending has been verified by a request whose status
\* is written ' VERIFIED '
C23_Witness ==
  /\ req.op = "doc_status" /\ req.status = " VERIFIED " /\ resp.status = 200
  /\ resp.document.status = "verified"
  /\ \E row \in compliance_master :
       row.emp_compliance_tracker_id = req.doc_id /\ row.status = "verified"

\* ----------------------------------------------------- headcount report

\* a count that takes every stored employee for an exited one
CountExited_all(rows) == Cardinality(DOMAIN rows)

\* EmpMasterMirror.objects.filter(end_date__isnull=False).count()
CountExited(rows) == Cardinality({e \in DOMAIN rows : rows[e].end_date # None})

\* EmpMasterMirror.objects.filter(end_date__isnull=True).count()
CountActive(rows) == Cardinality({e \in DOMAIN rows : rows[e].end_date = None})

\* EmpMasterMirror.objects.count()
CountTotal(rows) == Cardinality(DOMAIN rows)

\* the summary of ApiHeadcountReportView.get
HeadcountSummary(rows) ==
  [total_employees |-> CountTotal(rows),
   active_employees |-> CountActive(rows),
   exited_employees |-> CountExited(rows)]

\* ApiHeadcountReportView.get
ApiHeadcountReportViewGet ==
  /\ resp' = [status |-> 200, summary |-> HeadcountSummary(emp_master)]
  /\ req' = [op |-> "headcount"]
  /\ UNCHANGED <<emp_master, ctc_master, compliance_master, pending>>

NextHead ==
  \/ NextEmp
  \/ ApiHeadcountReportViewGet

SpecHead == Init /\ [][NextHead]_vars

\* ------------------------------------------------------ claims: headcount

\* the request of this step is the first exit of a stored employee
FirstExit ==
  /\ req'.op \in {"exit", "exit_workflow"} /\ resp'.status = 200
  /\ emp_master[_get_emp_master(emp_master, req'.emp_id)].end_date = None

\* C24: every headcount report gives the counts of the stored employees with
\* total_employees = active_employees + exited_employees; a create answered 201
\* raises total and active by one, the first exit of an employee lowers active
\* by one and raises exited by one, and no other request changes a count.
C24_HeadcountPartition ==
  [][LET before == HeadcountSummary(emp_master)
         after == HeadcountSummary(emp_master')
     IN /\ req'.op = "headcount" =>
             /\ resp'.summary = after
             /\ resp'.summary.total_employees
                  = resp'.summary.active_employees + resp'.summary.exited_employees
             /\ resp'.summary.active_employees = Cardinality({e \in Employees : emp_master[e].end_date = None})
             /\ resp'.summary.exited_employees = Cardinality(Employees) - resp'.summary.active_employees
        /\ after.total_employees = after.active_employees + after.exited_employees
        /\ IF req'.op = "create" /\ resp'.status = 201
           THEN /\ after.total_employees = before.total_employees + 1
                /\ after.active_employees = before.active_employees + 1
                /\ after.exited_employees = before.exited_employees
           ELSE IF FirstExit
           THEN /\ after.total_employees = before.total_employees
                /\ after.active_employees = before.active_employees - 1
                /\ after.exited_employees = before.exited_employees + 1
           ELSE after = before]_vars

\* the report has been read after a create and an exit: one employee, exited
C24_Witness ==
  /\ req.op = "headcount"
  /\ resp.summary.total_employees = 1
  /\ resp.summary.exited_employees = 1
  /\ resp.summary.active_employees = 0

\* ---------------------------------------------------- onboarding checklist
\* The checklist items are rows of emp_compliance_master whose comp_type is
\* one of the three of ONBOARDING_ITEM_DEFS.  Percentages are in hundredths.

ONBOARDING_ITEM_DEFS ==
  <<[id |-> 1, comp_type |-> "ID_PROOF_SUBMITTED"],
    [id |-> 2, comp_type |-> "ADDRESS_PROOF_SUBMITTED"],
    [id |-> 3, comp_type |-> "SIGNED_OFFER_LETTER"]>>

\* an item_id that int() rejects
BadItem == -1

\* the item_id, is_completed and document_ref values of the requests; None and
\* AbsentName are an absent key
ItemIdInputs == {None, BadItem, 1, 2, 9}
IsCompletedInputs == {None, 1, 2}
DocumentRefInputs == {AbsentName, "ref"}

\* bool(is_completed) for the values of the model: 1 is true, 2 is false
IsTrue(is_completed) == is_completed = 1

\* row.status in {'verified', 'completed'}
IsCompletedStatus(status) == status \in {"verified", "completed"}

ItemResponse(status, error, item) ==
  [status |-> status, error |-> error, item |-> item]

NoItem == [id |-> None, is_completed |-> FALSE, document_ref |-> ""]

\* ApiEmployeeOnboardingView.post
ApiEmployeeOnboardingViewPostResult(employees, rows, emp_id, item_id, is_completed, document_ref) ==
  IF emp_id \notin DOMAIN employees
  THEN [resp |-> ItemResponse(404, "Employee not found.", NoItem), rows |-> rows]
  ELSE IF item_id = None
  THEN [resp |-> ItemResponse(400, "item_id is required.", NoItem), rows |-> rows]
  ELSE IF item_id = BadItem
  THEN [resp |-> ItemResponse(400, "item_id must be a number.", NoItem), rows |-> rows]
  ELSE IF ~ \E i \in 1..Len(ONBOARDING_ITEM_DEFS) : ONBOARDING_ITEM_DEFS[i].id = item_id
  THEN [resp |-> ItemResponse(404, "Checklist item not found.", NoItem), rows |-> rows]
  ELSE IF document_ref = AbsentName /\ is_completed = None
  THEN [resp |-> ItemResponse(400, "Nothing to update.", NoItem), rows |-> rows]
  ELSE LET item_def == ONBOARDING_ITEM_DEFS[CHOOSE i \in 1..Len(ONBOARDING_ITEM_DEFS) :
                                              ONBOARDING_ITEM_DEFS[i].id = item_id]
           stored == {r \in rows : r.emp_id = emp_id /\ r.comp_type = item_def.comp_type}
           completed == IF is_completed = None THEN TRUE ELSE IsTrue(is_completed)
           doc_url == IF document_ref # AbsentName THEN document_ref
                      ELSE IF stored = {} THEN ""
                      ELSE (CHOOSE r \in stored : TRUE).doc_url
           row == UpdateOrCreate(rows, emp_id, item_def.comp_type,
                                 IF completed THEN "verified" ELSE "pending", doc_url)
       IN [resp |-> ItemResponse(200, "", [id |-> item_def.id,
                                           is_completed |-> IsCompletedStatus(row.status),
                                           document_ref |-> row.doc_url]),
           rows |-> SaveDocument(rows, row)]

ApiEmployeeOnboardingViewPost(emp_id, item_id, is_completed, document_ref) ==
  \E r \in {ApiEmployeeOnboardingViewPostResult(emp_master, compliance_master, emp_id,
                                               item_id, is_completed, document_ref)} :
     /\ Cardinality(r.rows) <= MaxDocs
     /\ compliance_master' = r.rows
     /\ resp' = r.resp
     /\ req' = [op |-> "onboarding_post", emp_id |-> emp_id, item_id |-> item_id,
                is_completed |-> is_completed, document_ref |-> document_ref]
     /\ UNCHANGED <<emp_master, ctc_master, pending>>

\* round(completed_count / total_count * 100, 2), in hundredths
ProgressPercentage(completed_count, total_count) ==
  IF total_count = 0 THEN 0
  ELSE (2 * completed_count * 10000 + total_count) \div (2 * total_count)

\* the number of items of ONBOARDING_ITEM_DEFS with a completed row of the
\* employee
CompletedCount(rows, emp_id) ==
  Cardinality({i \in 1..Len(ONBOARDING_ITEM_DEFS) :
                 \E r \in rows : /\ r.emp_id = emp_id
                                 /\ r.comp_type = ONBOARDING_ITEM_DEFS[i].comp_type
                                 /\ IsCompletedStatus(r.status)})

\* one row of the progress report
ProgressRow(employees, rows, emp_id) ==
  [emp_id |-> emp_id,
   status |-> _mirror_status(employees[emp_id].end_date),
   completed_count |-> CompletedCount(rows, emp_id),
   total_count |-> Len(ONBOARDING_ITEM_DEFS),
   progress_percentage |-> ProgressPercentage(CompletedCount(rows, emp_id),
                                              Len(ONBOARDING_ITEM_DEFS))]

\* ApiOnboardingProgressView.get: the rows of the report, here as a set (the
\* code lists them by emp_id)
ApiOnboardingProgressViewGet ==
  /\ resp' = [status |-> 200,
              progress |-> {ProgressRow(emp_master, compliance_master, e) :
                              e \in DOMAIN emp_master}]
  /\ req' = [op |-> "onboarding_progress"]
  /\ UNCHANGED <<emp_master, ctc_master, compliance_master, pending>>

NextOnboard ==
  \/ \E emp_id \in {"1", "E3", "E9"}, item_id \in ItemIdInputs,
        is_completed \in IsCompletedInputs, document_ref \in DocumentRefInputs :
          ApiEmployeeOnboardingViewPost(emp_id, item_id, is_completed, document_ref)
  \/ ApiOnboardingProgressViewGet

SpecOnboard == InitRole /\ [][NextOnboard]_vars

\* ------------------------------------------- claims: onboarding progress

\* the checklist items stored for an employee
ChecklistItemsOf(e) ==
  {r \in compliance_master :
     /\ r.emp_id = e
     /\ \E i \in 1..Len(ONBOARDING_ITEM_DEFS) : r.comp_type = ONBOARDING_ITEM_DEFS[i].comp_type}

\* C25: in every onboarding progress report the row of each employee that has
\* checklist items has progress_percentage = 100 * completed_count /
\* total_count, where total_count is the number of that employee's checklist
\* items and completed_count the number of them that are completed (50.0 for
\* an employee with two items of which one is completed), and
\* 0 <= completed_count <= total_count.
C25_ProgressOverEmployeeItems ==
  req.op = "onboarding_progress" =>
    \A row \in resp.progress :
      LET items == ChecklistItemsOf(row.emp_id)
          done == {r \in items : IsCompletedStatus(r.status)}
      IN items # {} =>
         /\ row.total_count = Cardinality(items)
         /\ row.completed_count = Cardinality(done)
         /\ 0 <= row.completed_count /\ row.completed_count <= row.total_count
         /\ row.progress_percentage * Cardinality(items) = 10000 * Cardinality(done)

\* ------------------------------------------------ claims: monetary amounts

\* C26: amounts are exact decimals of two fractional digits: the ctc_amt a
\* role-change POST answered 201 stores, and the annual_ctc of the record it
\* returns, equal the annual_ctc of the request exactly, so the salary band of
\* the stored amount is the band of the supplied amount.
C26_AmountStoredExactly ==
  [][(req'.op = "role_post" /\ resp'.status = 201) =>
       /\ resp'.record.annual_ctc = req'.body.annual_ctc
       /\ \A row \in ctc_master' \ ctc_master :
            /\ row.ctc_amt = req'.body.annual_ctc
            /\ salary_band(row.ctc_amt) = salary_band(req'.body.annual_ctc)]_vars

\* ------------------------------------------------ claims: role-level labels

\* the labels 'L<digits>' and 'L<digits><letter>'
IsLevelLabel(label) ==
  /\ Len(label) >= 2
  /\ label[1] = "L"
  /\ IsDigit(label[2])
  /\ \A i \in 3..Len(label) - 1 : IsDigit(label[i])
  /\ Len(label) >= 3 => (IsDigit(label[Len(label)]) \/ IsAlpha(label[Len(label)]))

\* C28: role-level labels round-trip through a role-change POST: when a POST
\* submitted with a role_level of the form 'L<digits>' or 'L<digits><letter>'
\* is answered 201, the role_level of the returned record equals the submitted
\* label.
C28_RoleLevelRoundTrip ==
  (req.op = "role_post" /\ resp.status = 201 /\ IsLevelLabel(req.body.role_level)) =>
     resp.record.role_level = req.body.role_level

\* ------------------------------------- the month loop, iteration by iteration
\* ApiJoinersLeaversReportView.get with the while loop of lines 1248-1254 run
\* one iteration per step; pending[p] holds the local variables of the request
\* worker p is serving.

\* emp_master with a joiner of January 2025 and a leaver of March 2025
LoopTable ==
  [e \in {"1", "2"} |->
     [emp_id |-> e,
      start_date |-> IF e = "1" THEN Date(2025, 1, 15) ELSE Date(2024, 12, 31),
      end_date |-> IF e = "1" THEN None ELSE Date(2025, 3, 20)]]

InitLoop ==
  /\ emp_master = LoopTable
  /\ ctc_master = {}
  /\ compliance_master = {}
  /\ pending = [p \in Procs |-> NoPending]
  /\ req = [ReportRequest(None, None, None) EXCEPT !.op = ""]
  /\ resp = ReportResponse(0, "", None, None, <<>>)

\* lines 1222-1232: the early response, or status 0 and the parsed range when
\* the request reaches the queries
ReportValidate(start_raw, end_raw, today) ==
  LET start_date == IF start_raw # None THEN _parse_iso_date(start_raw) ELSE DefaultStart
      end_date == IF end_raw # None THEN _parse_iso_date(end_raw) ELSE today
  IN IF start_date = BadDate
     THEN ReportResponse(400, "Invalid start format. Use YYYY-MM-DD.", None, None, <<>>)
     ELSE IF end_date = BadDate
     THEN ReportResponse(400, "Invalid end format. Use YYYY-MM-DD.", None, None, <<>>)
     ELSE IF EndBeforeRangeStart(start_date, end_date)
     THEN ReportResponse(400, "end cannot be before start.", None, None, <<>>)
     ELSE ReportResponse(0, "", start_date, end_date, <<>>)

\* lines 1222-1247 of a request served by worker p
ReportLoopBegin(p, start_raw, end_raw, today) ==
  \E early \in {ReportValidate(start_raw, end_raw, today)} :
     /\ pending[p].pc = "idle"
     /\ IF early.status # 0
        THEN /\ resp' = early
             /\ req' = ReportRequest(start_raw, end_raw, today)
             /\ UNCHANGED pending
        ELSE /\ pending' = [pending EXCEPT ![p] =
                  [pc |-> "loop", request |-> ReportRequest(start_raw, end_raw, today),
                   start_date |-> early.start, end_date |-> early.end,
                   joiners |-> joiners(emp_master, early.start, early.end),
                   leavers |-> leavers(emp_master, early.start, early.end),
                   cursor |-> Date(Year(early.start), Month(early.start), 1),
                   end_month |-> Date(Year(early.end), Month(early.end), 1),
                   rows |-> <<>>]]
             /\ UNCHANGED <<req, resp>>
     /\ UNCHANGED <<emp_master, ctc_master, compliance_master>>

\* one iteration of the loop (lines 1248-1254)
ReportLoopStep(p) ==
  /\ pending[p].pc = "loop"
  /\ CursorInRange(pending[p].cursor, pending[p].end_month)
  /\ pending' = [pending EXCEPT
       ![p].rows = Append(@, [month |-> MonthKey(pending[p].cursor),
                              joiners |-> DictGet(pending[p].joiners, MonthKey(pending[p].cursor)),
                              leavers |-> DictGet(pending[p].leavers, MonthKey(pending[p].cursor))]),
       ![p].cursor = NextCursor(@)]
  /\ UNCHANGED <<emp_master, ctc_master, compliance_master, req, resp>>

\* the loop condition fails: line 1256
ReportLoopEnd(p) ==
  /\ pending[p].pc = "loop"
  /\ ~ CursorInRange(pending[p].cursor, pending[p].end_month)
  /\ resp' = ReportResponse(200, "", pending[p].start_date, pending[p].end_date,
                            pending[p].rows)
  /\ req' = pending[p].request
  /\ pending' = [pending EXCEPT ![p] = NoPending]
  /\ UNCHANGED <<emp_master, ctc_master, compliance_master>>

NextLoop ==
  \/ \E p \in Procs, range \in ReportRanges, today \in Todays :
          ReportLoopBegin(p, range[1], range[2], today)
  \/ \E p \in Procs : ReportLoopStep(p)
  \/ \E p \in Procs : ReportLoopEnd(p)

SpecLoop == InitLoop /\ [][NextLoop]_vars

\* ------------------------------------------------- claims: the month loop

IsFirstOfMonth(d) == d = Date(Year(d), Month(d), 1)

\* the iterations the loop of a request still has to run: the months from the
\* cursor's to range_end's
RemainingMonths(l) == MonthIndexOf(l.end_date) - MonthIndexOf(l.cursor) + 1

\* C27: the month loop terminates for every range with range_end >=
\* range_start: the cursor is always the first day of a month, every iteration
\* moves it forward by exactly one calendar month, so the number of months
\* from the cursor to range_end's month, never negative, falls by one per
\* iteration, and the loop ends right after the iteration for the month that
\* contains range_end, with one row per iteration.
C27_MonthLoopTerminates ==
  [][\A p \in Procs :
       /\ pending'[p].pc = "loop" =>
            /\ IsFirstOfMonth(pending'[p].cursor)
            /\ RemainingMonths(pending'[p]) >= 0
            /\ pending'[p].end_date >= pending'[p].start_date
       /\ (pending[p].pc = "idle" /\ pending'[p].pc = "loop") =>
            /\ MonthIndexOf(pending'[p].cursor) = MonthIndexOf(pending'[p].start_date)
            /\ RemainingMonths(pending'[p]) >= 1
       /\ (pending[p].pc = "loop" /\ pending'[p] # pending[p]) =>
            IF RemainingMonths(pending[p]) > 0
            THEN /\ pending'[p].pc = "loop"
                 /\ pending'[p].cursor > pending[p].cursor
                 /\ MonthIndexOf(pending'[p].cursor) = MonthIndexOf(pending[p].cursor) + 1
                 /\ RemainingMonths(pending'[p]) = RemainingMonths(pending[p]) - 1
                 /\ Len(pending'[p].rows) = Len(pending[p].rows) + 1
            ELSE /\ pending'[p].pc = "idle"
                 /\ resp'.status = 200
                 /\ MonthIndexOf(pending[p].cursor) = MonthIndexOf(pending[p].end_date) + 1
                 /\ MonthIndex(resp'.monthly[Len(resp'.monthly)].month)
                      = MonthIndexOf(pending[p].end_date)
                 /\ Len(resp'.monthly)
                      = MonthIndexOf(pending[p].end_date)
                          - MonthIndexOf(pending[p].start_date) + 1]_vars

\* a loop that ran over the end of a year has ended: the report of the range
\* 2024-12-01..2025-03-31 is answered with four rows
C27_Witness ==
  /\ req.op = "joiners_leavers" /\ resp.status = 200
  /\ resp.start = Date(2024, 12, 1) /\ resp.end = Date(2025, 3, 31)
  /\ Len(resp.monthly) = 4
  /\ \A p \in Procs : pending[p].pc = "idle"

\* ------------------------------------------- claims: distribution counts

\* the sum of the counts of a dict of counts
RECURSIVE SumCounts(_)
SumCounts(counts) ==
  IF DOMAIN counts = {} THEN 0
  ELSE LET k == CHOOSE k \in DOMAIN counts : TRUE
       IN counts[k] + SumCounts([j \in DOMAIN counts \ {k} |-> counts[j]])

ActiveIds == {e \in Employees : emp_master[e].end_date = None}

\* C29: in every distribution report each active employee is counted once in
\* the salary bands and once in the level counts: the three band counts add
\* up to the number of active employees, the level counts add up to the same
\* number, each level count is the number of active employees reported at
\* that level, and an active employee without a compensation row, one with a
\* non-numeric emp_id included, is reported with amount 0 in the lowest band
\* under the level 'Unknown'.
C29_EveryActiveEmployeeCountedOnce ==
  req.op = "ctc_level_distribution" =>
    /\ SumCounts(resp.salary_bands) = Cardinality(ActiveIds)
    /\ SumCounts(resp.level_counts) = Cardinality(ActiveIds)
    /\ \A e \in ActiveIds : Cardinality(ReportRowsOf(e)) = 1
    /\ \A r \in resp.employees : r.emp_id \in ActiveIds
    /\ \A level \in DOMAIN resp.level_counts :
         resp.level_counts[level] =
           Cardinality({e \in ActiveIds : \E r \in ReportRowsOf(e) : r.level = level})
    /\ \A e \in ActiveIds :
         CtcRowsOf(e) = {} =>
           \A r \in ReportRowsOf(e) :
             /\ r.annual_ctc = 0
             /\ r.salary_band = "Below 7L"
             /\ r.level = <<"Unknown">>
             /\ resp.salary_bands["Below 7L"] >= 1
             /\ resp.level_counts[<<"Unknown">>] >= 1

\* a report over a table in which the non-numeric employee and a numeric
\* employee without rows are active beside an employee with a row
C29_Witness ==
  /\ req.op = "ctc_level_distribution"
  /\ "E3" \in ActiveIds
  /\ \E e \in ActiveIds : PyInt(e) # None /\ CtcRowsOf(e) = {}
  /\ \E e \in ActiveIds : CtcRowsOf(e) # {}
  /\ resp.level_counts[<<"Unknown">>] = 2
  /\ Cardinality(DOMAIN resp.level_counts) = 2

\* ----------------------------------------- claims: non-numeric employee ids

\* the request of r addresses a stored employee whose emp_id is no integer
NonNumericEmployee(r) == r.emp_id \in Employees /\ PyInt(r.emp_id) = None

\* the request of r addresses no stored employee, by its emp_id or by the
\* string of the integer it converts to
UnknownEmployee(r) ==
  /\ r.emp_id \notin Employees
  /\ PyInt(r.emp_id) # None => PyStr(PyInt(r.emp_id)) \notin Employees

====
